---- MODULE Spec2Model ----
(***************************************************************************)
(* Model of the load-cell measurement core of JmcFilamentScale:            *)
(*   LoadCell.cpp / LoadCell.h  (tare, calibrate, units, read, NVS blob)   *)
(*   MovingAverage.h            (sliding-window filter)                    *)
(*                                                                         *)
(* Number representation.  uint32_t / size_t values are records [v, w]     *)
(* standing for v + w * 2^32, so that the 32-bit wrap-around of the code   *)
(* is kept exactly.  double values are records [n0, n1, d0, d1] standing  *)
(* for (n0 + n1 * 2^32) / (d0 + d1 * 2^32), kept in lowest terms; a zero   *)
(* denominator is IEEE +inf / -inf / NaN.  Rounding of doubles is not      *)
(* modelled: every double is the exact quotient.                           *)
(***************************************************************************)
EXTENDS Integers, Sequences, FiniteSets, TLC

\* ------------------------------------------------------------------------
\* Integer helpers
\* ------------------------------------------------------------------------
Abs(a) == IF a < 0 THEN -a ELSE a

RECURSIVE GcdNat(_, _)
GcdNat(a, b) == IF b = 0 THEN a ELSE GcdNat(b, a % b)

Gcd(a, b) == GcdNat(Abs(a), Abs(b))

Gcd4(a, b, c, d) == Gcd(Gcd(a, b), Gcd(c, d))

\* C++ integer division (truncation toward zero), divisor > 0.
CDiv(a, b) == IF a >= 0 THEN a \div b ELSE -((-a) \div b)


\* ------------------------------------------------------------------------
\* uint32_t / size_t : [v, w] is v + w * 2^32 with 0 <= v + w * 2^32 < 2^32
\* ------------------------------------------------------------------------
U32(a) == [v |-> a, w |-> 0]

\* Conversion int32_t -> uint32_t (and int32_t -> size_t on the ESP32).
ToU32(a) == IF a < 0 THEN [v |-> a, w |-> 1] ELSE [v |-> a, w |-> 0]

\* Conversion uint32_t -> int32_t (values of 2^31 and above become negative).
ToI32(u) == u.v

\* Unsigned subtraction modulo 2^32.
U32Sub(a, b) ==
    LET w0 == a.w - b.w
        v0 == a.v - b.v
    IN  IF w0 = 1 THEN [v |-> v0, w |-> 1]
        ELSE IF w0 = -1 THEN [v |-> v0, w |-> 0]
        ELSE IF v0 < 0 THEN [v |-> v0, w |-> 1]
        ELSE [v |-> v0, w |-> 0]

U32IsZero(u) == u.v = 0 /\ u.w = 0

\* a < k and a > k for an unsigned a and a small non-negative literal k.
U32Less(a, k) == a.w = 0 /\ a.v < k
U32Greater(a, k) == a.w = 1 \/ a.v > k

\* ------------------------------------------------------------------------
\* double : [n0, n1, d0, d1] is (n0 + n1 * 2^32) / (d0 + d1 * 2^32)
\* ------------------------------------------------------------------------
SignOf(lo, hi) == IF hi > 0 THEN 1 ELSE IF hi < 0 THEN -1
                  ELSE IF lo > 0 THEN 1 ELSE IF lo < 0 THEN -1 ELSE 0

\* (n0, n1) and (d0, d1), both non-zero, point in the same or in opposite
\* directions: n0 * d1 = n1 * d0, tested without forming the products.
Parallel(n0, n1, d0, d1) ==
    LET gn == Gcd(n0, n1)
        gd == Gcd(d0, d1)
    IN  \/ (n0 \div gn = d0 \div gd /\ n1 \div gn = d1 \div gd)
        \/ (n0 \div gn = -(d0 \div gd) /\ n1 \div gn = -(d1 \div gd))

\* Lowest terms, positive denominator; x/0 is +inf, -inf or NaN.
DNormOf(n0, n1, d0, d1) ==
    LET sd == SignOf(d0, d1)
        sn == SignOf(n0, n1)
    IN  IF sd = 0 THEN [n0 |-> sn, n1 |-> 0, d0 |-> 0, d1 |-> 0]
        ELSE IF sn = 0 THEN [n0 |-> 0, n1 |-> 0, d0 |-> 1, d1 |-> 0]
        ELSE IF (n1 # 0 \/ d1 # 0) /\ Parallel(n0, n1, d0, d1)
             THEN \* a plain quotient: the 2^32 terms cancel
                  LET gn == Gcd(n0, n1)
                      gd == Gcd(d0, d1)
                      g  == Gcd(gn, gd)
                  IN [n0 |-> sn * (gn \div g), n1 |-> 0,
                      d0 |-> gd \div g, d1 |-> 0]
        ELSE LET g == Gcd4(n0, n1, d0, d1)
             IN [n0 |-> sd * (n0 \div g), n1 |-> sd * (n1 \div g),
                 d0 |-> sd * (d0 \div g), d1 |-> sd * (d1 \div g)]

\* DNormOf on the values of its arguments (each argument evaluated once).
DNorm(n0, n1, d0, d1) ==
    CHOOSE r \in {DNormOf(a, b, c, d) :
                     a \in {n0}, b \in {n1}, c \in {d0}, d \in {d1}} : TRUE

\* The double p / q for integers p, q.
DRat(p, q) == DNorm(p, 0, q, 0)

\* static_cast<double>(int32_t).
DInt(a) == DRat(a, 1)

\* static_cast<double>(uint32_t).
DU32(u) == DNorm(u.v, u.w, 1, 0)

DIsPlain(x) == x.n1 = 0 /\ x.d1 = 0
DIsFinite(x) == x.d0 # 0 \/ x.d1 # 0
DIsZero(x) == DIsFinite(x) /\ x.n0 = 0 /\ x.n1 = 0

\* x * y where y is a plain quotient (no 2^32 term); cross-cancelled first.
DMulPlainOf(x, y) ==
    IF ~DIsFinite(x) \/ ~DIsFinite(y)
    THEN DNorm(x.n0 * y.n0, x.n1 * y.n0, x.d0 * y.d0, x.d1 * y.d0)
    ELSE LET g1 == Gcd(Gcd(x.n0, x.n1), y.d0)
             g2 == Gcd(Gcd(x.d0, x.d1), y.n0)
             a  == IF g2 = 0 THEN y.n0 ELSE y.n0 \div g2
             b  == IF g1 = 0 THEN y.d0 ELSE y.d0 \div g1
             k1 == IF g1 = 0 THEN 1 ELSE g1
             k2 == IF g2 = 0 THEN 1 ELSE g2
         IN DNorm((x.n0 \div k1) * a, (x.n1 \div k1) * a,
                  (x.d0 \div k2) * b, (x.d1 \div k2) * b)

\* x * y for doubles of which at least one is plain.
DMul(x, y) ==
    CHOOSE r \in {IF DIsPlain(v) THEN DMulPlainOf(u, v) ELSE DMulPlainOf(v, u) :
                     u \in {x}, v \in {y}} : TRUE

\* 1 / x.
DRecip(x) == CHOOSE r \in {DNorm(u.d0, u.d1, u.n0, u.n1) : u \in {x}} : TRUE

\* x / y.
DDiv(x, y) == DMul(x, DRecip(y))

\* x - y where y is plain, over the least common denominator.
DSubOf(x, y) ==
    IF ~DIsFinite(x) \/ ~DIsFinite(y)
    THEN DNorm(x.n0 * y.d0 - y.n0 * x.d0, x.n1 * y.d0 - y.n0 * x.d1,
               x.d0 * y.d0, x.d1 * y.d0)
    ELSE LET g  == Gcd(Gcd(x.d0, x.d1), y.d0)
             qy == y.d0 \div g           \* multiplier for x
             e0 == x.d0 \div g           \* multiplier for y (low part)
             e1 == x.d1 \div g           \* multiplier for y (2^32 part)
         IN DNorm(x.n0 * qy - y.n0 * e0, x.n1 * qy - y.n0 * e1,
                  x.d0 * qy, x.d1 * qy)

\* DSubOf on the values of its arguments.
DSub(x, y) == CHOOSE r \in {DSubOf(u, v) : u \in {x}, v \in {y}} : TRUE

\* static_cast<int32_t>(double) for a plain finite double (truncation).
DToI32(x) == CDiv(x.n0, x.d0)

\* ------------------------------------------------------------------------
\* Program constants
\* ------------------------------------------------------------------------
eWuGrams == 0
eWuKiloGrams == 1
eWuOunces == 2
eWuPounds == 3
eWuBadVal == 99

GRAMS_PER_KILOGRAM == DRat(1000, 1)
GRAMS_PER_POUND == DRat(453592, 1000)
OUNCES_PER_POUND == DRat(16, 1)
GRAMS_PER_OUNCE == DDiv(GRAMS_PER_POUND, OUNCES_PER_POUND)
\* -999999999.9 = -(1410065407 + 2 * 2^32) / 10
UNCALIBRATED_READ_VALUE == DNorm(-1410065407, -2, 10, 0)
DEFAULT_AVERAGE_INTERVAL == DRat(10, 1)
DEFAULT_TARE_COUNT == 20
DEFAULT_GAIN == 128
MAX_NVS_NAME_LEN == 15
LIMIT_DIVISOR == 800
MAX_SIZE == 100
MIN_SIZE == 1

NULL == "NULL"
\* The content of an NVS key: << >> when absent, <<blob>> when stored.
NoBlob == << >>
Indeterminate == "indeterminate"

\* ------------------------------------------------------------------------
\* MovingAverage<int32_t, int64_t> : a record
\*   [m_Values, m_NumValues, m_Size, m_Total]
\* ------------------------------------------------------------------------
\* A mutation of MA_Reset: only the number of values is cleared.
MA_Reset_KeepsTotal(ma) == [ma EXCEPT !.m_NumValues = 0]

\* MovingAverage::Reset()
MA_Reset(ma) == [ma EXCEPT !.m_Total = 0, !.m_NumValues = 0]

\* A mutation of MA_SetSize: a size below MIN_SIZE is not clipped.
MA_SetSize_NoLowerClip(ma, newSize) ==
    LET clipped == IF U32Greater(newSize, MAX_SIZE) THEN MAX_SIZE
                   ELSE newSize.v
    IN  IF clipped # ma.m_Size
        THEN MA_Reset([ma EXCEPT !.m_Size = clipped])
        ELSE ma

\* A mutation of MA_SetSize: the filter is reset whether or not the size
\* changes.
MA_SetSize_ResetAlways(ma, newSize) ==
    LET clipped == IF U32Less(newSize, MIN_SIZE) THEN MIN_SIZE
                   ELSE IF U32Greater(newSize, MAX_SIZE) THEN MAX_SIZE
                   ELSE newSize.v
    IN  MA_Reset([ma EXCEPT !.m_Size = clipped])

\* MovingAverage::SetSize(newSize).
\* newSize is a size_t.
MA_SetSize(ma, newSize) ==
    LET clipped == IF U32Less(newSize, MIN_SIZE) THEN MIN_SIZE
                   ELSE IF U32Greater(newSize, MAX_SIZE) THEN MAX_SIZE
                   ELSE newSize.v
    IN  IF clipped # ma.m_Size
        THEN MA_Reset([ma EXCEPT !.m_Size = clipped])
        ELSE ma

MA_Size(ma) == ma.m_Size

\* m_NumValues is a size_t of 32 bits.  It is held as the signed integer
\* congruent to it modulo 2^32: the values 2^31 .. 2^32 - 1 are held as
\* -2^31 .. -1, so that -1 is followed by 0 as 2^32 - 1 is.
SizeInc(n) == IF n = 2147483647 THEN (-2147483647) - 1 ELSE n + 1

\* a < b on two size_t values.
SizeLess(a, b) ==
    IF (a < 0) = (b < 0) THEN a < b ELSE b < 0

\* 2^32 % k
Pow32Mod(k) == ((65536 % k) * (65536 % k)) % k

\* n % k on a size_t n, for 0 < k < 2^15.
SizeMod(n, k) ==
    IF n >= 0 THEN n % k
    ELSE (Pow32Mod(k) + (k - 1) - ((-(n + 1)) % k)) % k

\* m_Values with slot i overwritten by val.
Store(values, i, val) ==
    [j \in DOMAIN values \cup {i} |-> IF j = i THEN val ELSE values[j]]

\* The content of slot i: indeterminate until the slot is first written.
Slot(values, i) == IF i \in DOMAIN values THEN values[i] ELSE Indeterminate

\* A mutation of MA_Add: a full window always evicts slot 0.
MA_Add_EvictsFirst(ma, val) ==
    IF ma.m_NumValues < ma.m_Size
    THEN [ma EXCEPT !.m_Total = ma.m_Total + val,
                    !.m_Values = Store(ma.m_Values, ma.m_NumValues, val),
                    !.m_NumValues = ma.m_NumValues + 1]
    ELSE [ma EXCEPT !.m_Total = (ma.m_Total + val) - Slot(ma.m_Values, 0),
                    !.m_Values = Store(ma.m_Values, 0, val),
                    !.m_NumValues = ma.m_NumValues + 1]

\* MovingAverage::Add(val), without the value returned.
MA_Add(ma, val) ==
    IF SizeLess(ma.m_NumValues, ma.m_Size)
    THEN [ma EXCEPT !.m_Total = ma.m_Total + val,
                    !.m_Values = Store(ma.m_Values, ma.m_NumValues, val),
                    !.m_NumValues = SizeInc(ma.m_NumValues)]
    ELSE LET slot == SizeMod(ma.m_NumValues, ma.m_Size)
         IN [ma EXCEPT !.m_Total = (ma.m_Total + val)
                                     - Slot(ma.m_Values, slot),
                       !.m_Values = Store(ma.m_Values, slot, val),
                       !.m_NumValues = SizeInc(ma.m_NumValues)]

Min(a, b) == IF a < b THEN a ELSE b

\* A mutation of MA_Average: the total is divided by the number of values
\* added, whatever the window size.
MA_Average_ByNumValues(ma) == CDiv(ma.m_Total, ma.m_NumValues)

\* std::min(m_NumValues, m_Size), the divisor of MovingAverage::Average().
MA_Divisor(ma) ==
    IF SizeLess(ma.m_NumValues, ma.m_Size) THEN ma.m_NumValues ELSE ma.m_Size

\* MovingAverage::Average().
\* Division by zero (m_NumValues is 0) has no defined result: whatever the
\* call yields is indeterminate.
MA_Average(ma) ==
    IF MA_Divisor(ma) = 0 THEN Indeterminate
    ELSE CDiv(ma.m_Total, MA_Divisor(ma))

\* MovingAverage(size): members zeroed, SetSize(size).  m_Values is the
\* array V m_Values[MAX_SIZE], kept as a function over the slots written so
\* far; every other slot is indeterminate.
MA_New(size) ==
    MA_SetSize([m_Values |-> [i \in {} |-> 0],
                m_NumValues |-> 0, m_Size |-> 0, m_Total |-> 0], size)

\* ------------------------------------------------------------------------
\* LoadCell state
\* ------------------------------------------------------------------------
VARIABLES
    m_Gain,               \* uint8_t  : HX711 gain
    m_RawTareWeight,      \* int32_t  : raw tare weight, 0 = not tared
    m_IsCalibrated,       \* bool
    m_Offset,             \* double   : display offset
    m_Units,              \* WeightUnits
    m_AverageInterval,    \* double   : reported averaging interval
    m_UnitsScaleFactor,   \* double   : raw-to-units scale factor
    m_ConversionFactor,   \* double   : factor of the last unit change
    m_MovingAverage,      \* MovingAverage<int32_t, int64_t>
    m_pName,              \* NVS instance name, NULL until Init succeeds
    nvs,                  \* per NVS namespace: the content of the key
                          \* "Saved State"
    hx,                   \* raw values read from the HX711 by the last call
    puts,                 \* number of putBytes made by the last call
    last,                 \* the last call: [op, args, ret]
    pc,                   \* position of the main program inside SetUnits,
                          \* "idle" between calls
    masked,               \* interrupts are disabled (noInterrupts())
    entered,              \* the SetUnits call in progress:
                          \* [newUnits, before]
    seen,                 \* what the interrupt handler read last:
                          \* [at, m_Offset, m_UnitsScaleFactor, m_Units]
    history,              \* the values passed to MovingAverage::Add since
                          \* the last MovingAverage::Reset, kept by the
                          \* filter operations of SpecFilter only
    retry,                \* the tare retry loop of a menu handler:
                          \* [pc, handler, i, success, before, status]
    gWebLock,             \* the options lock, a SimpleLock: [m_Owner]
    gWebWdTime,           \* time of the last main page request (ms)
    millis,               \* the value of millis()
    web                   \* the web client: [connected, heard], heard the
                          \* time of its last request of any kind

cal == <<m_Gain, m_RawTareWeight, m_IsCalibrated, m_Offset, m_Units,
         m_AverageInterval, m_UnitsScaleFactor, m_ConversionFactor>>

vars == <<m_Gain, m_RawTareWeight, m_IsCalibrated, m_Offset, m_Units,
          m_AverageInterval, m_UnitsScaleFactor, m_ConversionFactor,
          m_MovingAverage, m_pName, nvs, hx, puts, last,
          pc, masked, entered, seen, history,
          retry, gWebLock, gWebWdTime, millis, web>>

\* The variables of the options lock and its watchdog.
lock == <<gWebLock, gWebWdTime, millis, web>>

\* The variables that only the interrupt and the filter specifications
\* change.
irq == <<pc, masked, entered, seen, history>>

\* The variables that the specifications of the load cell on its own leave
\* alone.
aux == <<irq, retry, lock>>

Call(op, args, ret) == [op |-> op, args |-> args, ret |-> ret]

\* The instance names offered to Init, and the NVS namespaces they open.
NameArgs == {NULL, "", "LoadCell", "LoadCellNumber16"}

\* SimpleLock::UNOWNED and the owners of gWebLock.
UNOWNED == 0
LOCAL_OWNER == 1
WEB_OWNER == 2

\* No menu handler running, gWebLock as constructed (SimpleLock::SimpleLock),
\* gWebWdTime = 0, and a web client that has sent nothing yet.
InitApp ==
    /\ retry = [pc |-> "idle", handler |-> NULL, i |-> 0, success |-> FALSE,
                before |-> 0, status |-> NULL]
    /\ gWebLock = [m_Owner |-> UNOWNED]
    /\ gWebWdTime = 0
    /\ millis = 0
    /\ web = [connected |-> TRUE, heard |-> 0]
NvsNames == {name \in NameArgs \ {NULL} :
                Len(name) # 0 /\ Len(name) <= MAX_NVS_NAME_LEN}

\* LoadCell::LoadCell(dout, sck, gain = DEFAULT_GAIN)
Init ==
    /\ m_Gain = DEFAULT_GAIN
    /\ m_RawTareWeight = 0
    /\ m_IsCalibrated = FALSE
    /\ m_Offset = DRat(0, 1)
    /\ m_Units = eWuGrams
    /\ m_AverageInterval = DEFAULT_AVERAGE_INTERVAL
    /\ m_UnitsScaleFactor = DRat(1, 1)
    /\ m_ConversionFactor = DRat(1, 1)
    /\ m_MovingAverage = MA_New(U32(DToI32(DEFAULT_AVERAGE_INTERVAL)))
    /\ m_pName = NULL
    /\ nvs = [name \in NvsNames |-> NoBlob]
    /\ hx = << >>
    /\ puts = 0
    /\ last = Call("LoadCell", << >>, TRUE)
    /\ pc = "idle"
    /\ masked = FALSE
    /\ entered = << >>
    /\ seen = << >>
    /\ history = << >>
    /\ InitApp

\* ------------------------------------------------------------------------
\* LoadCell operations
\* ------------------------------------------------------------------------

\* LoadCell::Init(pName).  ready is the outcome of wait_ready_retry(10, 10);
\* sample is the value read by IsPresent() when the device is ready.
InitLoadCell(pName, ready, sample) ==
    LET present == ready /\ sample # 0
        ok == present /\ pName # NULL /\ Len(pName) # 0
                      /\ Len(pName) <= MAX_NVS_NAME_LEN
    IN  /\ m_pName' = IF ok THEN pName ELSE m_pName
        /\ hx' = IF ready THEN <<sample>> ELSE << >>
        /\ puts' = 0
        /\ last' = Call("Init", <<pName>>, ok)
        /\ UNCHANGED <<cal, m_MovingAverage, nvs>>

\* A mutation of GainAccepted: every gain that differs from the current one
\* is accepted.
GainAccepted_AnyValue(gain, current) == gain # current

\* The test of LoadCell::SetGain.
GainAccepted(gain, current) == (gain = 128 \/ gain = 64) /\ gain # current

\* A mutation of SetGain: a gain change keeps the calibrated flag.
SetGain_KeepsCalibrated(gain, sample) ==
    LET ok == GainAccepted(gain, m_Gain)
    IN  /\ m_IsCalibrated' = m_IsCalibrated
        /\ m_Gain' = IF ok THEN gain ELSE m_Gain
        /\ hx' = IF ok THEN <<sample>> ELSE << >>
        /\ m_MovingAverage' = IF ok THEN MA_Reset(m_MovingAverage)
                                    ELSE m_MovingAverage
        /\ puts' = 0
        /\ last' = Call("SetGain", <<gain>>, ok)
        /\ UNCHANGED <<m_RawTareWeight, m_Offset, m_Units, m_AverageInterval,
                       m_UnitsScaleFactor, m_ConversionFactor, m_pName, nvs>>

\* LoadCell::SetGain(gain).  sample is the throwaway reading.
SetGain(gain, sample) ==
    LET ok == GainAccepted(gain, m_Gain)
    IN  /\ m_IsCalibrated' = IF ok THEN FALSE ELSE m_IsCalibrated
        /\ m_Gain' = IF ok THEN gain ELSE m_Gain
        /\ hx' = IF ok THEN <<sample>> ELSE << >>
        /\ m_MovingAverage' = IF ok THEN MA_Reset(m_MovingAverage)
                                    ELSE m_MovingAverage
        /\ puts' = 0
        /\ last' = Call("SetGain", <<gain>>, ok)
        /\ UNCHANGED <<m_RawTareWeight, m_Offset, m_Units, m_AverageInterval,
                       m_UnitsScaleFactor, m_ConversionFactor, m_pName, nvs>>

\* Sum, minimum and maximum of a non-empty sequence of readings.
RECURSIVE SumTo(_, _)
SumTo(s, n) == IF n = 0 THEN 0 ELSE s[n] + SumTo(s, n - 1)

SeqSum(s) == SumTo(s, Len(s))

SeqMin(s) == CHOOSE x \in {s[i] : i \in 1..Len(s)} :
                 \A y \in {s[i] : i \in 1..Len(s)} : x <= y

SeqMax(s) == CHOOSE x \in {s[i] : i \in 1..Len(s)} :
                 \A y \in {s[i] : i \in 1..Len(s)} : x >= y

\* A mutation of WithinLimits: the limits themselves are accepted.
WithinLimits_Inclusive(avg, min, max) ==
    LET upperLimit == avg + CDiv(avg, LIMIT_DIVISOR)
        lowerLimit == avg - CDiv(avg, LIMIT_DIVISOR)
    IN  (max <= upperLimit) /\ (min >= lowerLimit)

\* A mutation of WithinLimits: the limits are half a percent.
WithinLimits_Wide(avg, min, max) ==
    LET upperLimit == avg + CDiv(avg, 200)
        lowerLimit == avg - CDiv(avg, 200)
    IN  (max < upperLimit) /\ (min > lowerLimit)

\* A mutation of WithinLimits: the width of the band is rounded up, so
\* that it is never zero for a positive average.
WithinLimits_RoundedUp(avg, min, max) ==
    LET upperLimit == avg + CDiv(avg + LIMIT_DIVISOR - 1, LIMIT_DIVISOR)
        lowerLimit == avg - CDiv(avg + LIMIT_DIVISOR - 1, LIMIT_DIVISOR)
    IN  (max < upperLimit) /\ (min > lowerLimit)

\* The acceptance test of LoadCell::ReadRawAverage on avg, min and max.
WithinLimits(avg, min, max) ==
    LET upperLimit == avg + CDiv(avg, LIMIT_DIVISOR)
        lowerLimit == avg - CDiv(avg, LIMIT_DIVISOR)
    IN  (max < upperLimit) /\ (min > lowerLimit)

\* A mutation of ReadRawAverage: there is no throwaway reading, the first
\* count values read are averaged.
ReadRawAverage_KeepsFirst(count, reads) ==
    LET batch == SubSeq(reads, 1, count)
        avg == CDiv(SeqSum(batch), count)
    IN  IF WithinLimits(avg, SeqMin(batch), SeqMax(batch))
        THEN ToU32(avg)
        ELSE ToU32(0)

\* LoadCell::ReadRawAverage(count).  reads are the count + 1 values read
\* from the HX711: the throwaway reading, then the count readings averaged.
\* The result is a uint32_t.
ReadRawAverage(count, reads) ==
    LET batch == SubSeq(reads, 2, count + 1)
        avg == CDiv(SeqSum(batch), count)
    IN  IF WithinLimits(avg, SeqMin(batch), SeqMax(batch))
        THEN ToU32(avg)
        ELSE ToU32(0)

\* A call of the public LoadCell::ReadRawAverage(count) on its own.
ReadRawAverageCall(count, reads) ==
    /\ Len(reads) = count + 1
    /\ hx' = reads
    /\ puts' = 0
    /\ last' = Call("ReadRawAverage", <<count>>, ReadRawAverage(count, reads))
    /\ UNCHANGED <<cal, m_MovingAverage, m_pName, nvs>>

\* A mutation of Tare: the filter is reset whether or not the batch is
\* accepted.
Tare_ResetAlways(count, reads) ==
    LET tareValue == ReadRawAverage(count, reads)
        ok == ~U32IsZero(tareValue)
    IN  /\ Len(reads) = count + 1
        /\ m_RawTareWeight' = IF ok THEN ToI32(tareValue) ELSE m_RawTareWeight
        /\ m_MovingAverage' = MA_Reset(m_MovingAverage)
        /\ hx' = reads
        /\ puts' = 0
        /\ last' = Call("Tare", <<count>>, ok)
        /\ UNCHANGED <<m_Gain, m_IsCalibrated, m_Offset, m_Units,
                       m_AverageInterval, m_UnitsScaleFactor,
                       m_ConversionFactor, m_pName, nvs>>

\* A mutation of Tare: a successful tare clears the calibrated flag.
Tare_ClearsCalibrated(count, reads) ==
    LET tareValue == ReadRawAverage(count, reads)
        ok == ~U32IsZero(tareValue)
    IN  /\ Len(reads) = count + 1
        /\ m_RawTareWeight' = IF ok THEN ToI32(tareValue) ELSE m_RawTareWeight
        /\ m_IsCalibrated' = IF ok THEN FALSE ELSE m_IsCalibrated
        /\ m_MovingAverage' = IF ok THEN MA_Reset(m_MovingAverage)
                                    ELSE m_MovingAverage
        /\ hx' = reads
        /\ puts' = 0
        /\ last' = Call("Tare", <<count>>, ok)
        /\ UNCHANGED <<m_Gain, m_Offset, m_Units,
                       m_AverageInterval, m_UnitsScaleFactor,
                       m_ConversionFactor, m_pName, nvs>>

\* A mutation of Tare: the average is stored even when the batch is
\* rejected.
Tare_StoresRejected(count, reads) ==
    LET tareValue == ReadRawAverage(count, reads)
        ok == ~U32IsZero(tareValue)
    IN  /\ Len(reads) = count + 1
        /\ m_RawTareWeight' = ToI32(tareValue)
        /\ m_MovingAverage' = IF ok THEN MA_Reset(m_MovingAverage)
                                    ELSE m_MovingAverage
        /\ hx' = reads
        /\ puts' = 0
        /\ last' = Call("Tare", <<count>>, ok)
        /\ UNCHANGED <<m_Gain, m_IsCalibrated, m_Offset, m_Units,
                       m_AverageInterval, m_UnitsScaleFactor,
                       m_ConversionFactor, m_pName, nvs>>

\* A mutation of Tare: the filter is not reset after a successful tare.
Tare_NoReset(count, reads) ==
    LET tareValue == ReadRawAverage(count, reads)
        ok == ~U32IsZero(tareValue)
    IN  /\ Len(reads) = count + 1
        /\ m_RawTareWeight' = IF ok THEN ToI32(tareValue) ELSE m_RawTareWeight
        /\ m_MovingAverage' = m_MovingAverage
        /\ hx' = reads
        /\ puts' = 0
        /\ last' = Call("Tare", <<count>>, ok)
        /\ UNCHANGED <<m_Gain, m_IsCalibrated, m_Offset, m_Units,
                       m_AverageInterval, m_UnitsScaleFactor,
                       m_ConversionFactor, m_pName, nvs>>

\* LoadCell::Tare(count).
Tare(count, reads) ==
    LET tareValue == ReadRawAverage(count, reads)
        ok == ~U32IsZero(tareValue)
    IN  /\ Len(reads) = count + 1
        /\ m_RawTareWeight' = IF ok THEN ToI32(tareValue) ELSE m_RawTareWeight
        /\ m_MovingAverage' = IF ok THEN MA_Reset(m_MovingAverage)
                                    ELSE m_MovingAverage
        /\ hx' = reads
        /\ puts' = 0
        /\ last' = Call("Tare", <<count>>, ok)
        /\ UNCHANGED <<m_Gain, m_IsCalibrated, m_Offset, m_Units,
                       m_AverageInterval, m_UnitsScaleFactor,
                       m_ConversionFactor, m_pName, nvs>>

\* A mutation of Tared: the tare precondition of Calibrate is dropped.
Tared_Always(rawTareWeight) == TRUE

\* "We can only calibrate if a successful tare has been done."
Tared(rawTareWeight) == rawTareWeight # 0

\* A mutation of Calibrate: the filter is reset before the calibration
\* weight is acquired.
Calibrate_ResetsFirst(rawCalWeight, cookedCalWeight, reads) ==
    LET tared == Tared(m_RawTareWeight)
        acquire == tared /\ U32IsZero(rawCalWeight)
        raw == IF acquire THEN ReadRawAverage(DEFAULT_TARE_COUNT, reads)
                          ELSE rawCalWeight
        ok == tared /\ ~U32IsZero(raw)
    IN  /\ Len(reads) = IF acquire THEN DEFAULT_TARE_COUNT + 1 ELSE 0
        /\ hx' = reads
        /\ m_MovingAverage' = IF tared THEN MA_Reset(m_MovingAverage)
                                       ELSE m_MovingAverage
        /\ m_UnitsScaleFactor' =
              IF ok THEN DDiv(cookedCalWeight,
                              DU32(U32Sub(raw, ToU32(m_RawTareWeight))))
                    ELSE m_UnitsScaleFactor
        /\ m_IsCalibrated' = IF ok THEN TRUE ELSE m_IsCalibrated
        /\ puts' = 0
        /\ last' = Call("Calibrate", <<rawCalWeight, cookedCalWeight>>, ok)
        /\ UNCHANGED <<m_Gain, m_RawTareWeight, m_Offset, m_Units,
                       m_AverageInterval, m_ConversionFactor, m_pName, nvs>>

\* LoadCell::Calibrate(rawCalWeight, cookedCalWeight).  rawCalWeight is a
\* uint32_t; reads are the values read when it is 0 (ReadRawAverage with
\* the default count), and are not consumed otherwise.
Calibrate(rawCalWeight, cookedCalWeight, reads) ==
    LET tared == Tared(m_RawTareWeight)
        acquire == tared /\ U32IsZero(rawCalWeight)
        raw == IF acquire THEN ReadRawAverage(DEFAULT_TARE_COUNT, reads)
                          ELSE rawCalWeight
        ok == tared /\ ~U32IsZero(raw)
    IN  /\ Len(reads) = IF acquire THEN DEFAULT_TARE_COUNT + 1 ELSE 0
        /\ hx' = reads
        /\ m_MovingAverage' = IF ok THEN MA_Reset(m_MovingAverage)
                                    ELSE m_MovingAverage
        /\ m_UnitsScaleFactor' =
              IF ok THEN DDiv(cookedCalWeight,
                              DU32(U32Sub(raw, ToU32(m_RawTareWeight))))
                    ELSE m_UnitsScaleFactor
        /\ m_IsCalibrated' = IF ok THEN TRUE ELSE m_IsCalibrated
        /\ puts' = 0
        /\ last' = Call("Calibrate", <<rawCalWeight, cookedCalWeight>>, ok)
        /\ UNCHANGED <<m_Gain, m_RawTareWeight, m_Offset, m_Units,
                       m_AverageInterval, m_ConversionFactor, m_pName, nvs>>

\* A mutation of GetBaseUnitsFactor: units that are not known have the
\* factor 1.
GetBaseUnitsFactor_NoDefault(units) ==
    CASE units = eWuGrams     -> DRat(1, 1)
      [] units = eWuKiloGrams -> GRAMS_PER_KILOGRAM
      [] units = eWuOunces    -> GRAMS_PER_OUNCE
      [] units = eWuPounds    -> GRAMS_PER_POUND
      [] OTHER                -> DRat(1, 1)

\* LoadCell::GetBaseUnitsFactor(units)
GetBaseUnitsFactor(units) ==
    CASE units = eWuGrams     -> DRat(1, 1)
      [] units = eWuKiloGrams -> GRAMS_PER_KILOGRAM
      [] units = eWuOunces    -> GRAMS_PER_OUNCE
      [] units = eWuPounds    -> GRAMS_PER_POUND
      [] OTHER                -> DRat(0, 1)

\* A mutation of ScaledValue: the display offset is added.
ScaledValue_OffsetAdded(rawAverage, tare, scale, offset) ==
    DSub(DMul(DSub(DInt(rawAverage), DInt(tare)), scale),
         DSub(DRat(0, 1), offset))

\* The value computed by LoadCell::ReadWeight from the averaged raw weight.
ScaledValue(rawAverage, tare, scale, offset) ==
    DSub(DMul(DSub(DInt(rawAverage), DInt(tare)), scale), offset)

\* A mutation of ReadWeight: the weight is computed whether or not the load
\* cell is calibrated.
ReadWeight_Unchecked(sample) ==
    LET added == MA_Add(m_MovingAverage, sample)
    IN  /\ m_MovingAverage' = added
        /\ hx' = <<sample>>
        /\ puts' = 0
        /\ last' = Call("ReadWeight", << >>,
                        ScaledValue(MA_Average(added), m_RawTareWeight,
                                    m_UnitsScaleFactor, m_Offset))
        /\ UNCHANGED <<cal, m_pName, nvs>>

\* A mutation of ReadWeight: the sample is read and added to the filter
\* whether or not the load cell is calibrated; the value returned is kept.
ReadWeight_AlwaysSamples(sample) ==
    LET added == MA_Add(m_MovingAverage, sample)
    IN  /\ m_MovingAverage' = added
        /\ hx' = <<sample>>
        /\ puts' = 0
        /\ last' = Call("ReadWeight", << >>,
                        IF m_IsCalibrated
                        THEN ScaledValue(MA_Average(added), m_RawTareWeight,
                                         m_UnitsScaleFactor, m_Offset)
                        ELSE UNCALIBRATED_READ_VALUE)
        /\ UNCHANGED <<cal, m_pName, nvs>>

\* LoadCell::ReadWeight(), with LoadCell::ReadAndAverageRawWeight() inlined.
\* sample is the value read from the HX711 when calibrated.
ReadWeight(sample) ==
    LET added == MA_Add(m_MovingAverage, sample)
    IN  /\ m_MovingAverage' = IF m_IsCalibrated THEN added ELSE m_MovingAverage
        /\ hx' = IF m_IsCalibrated THEN <<sample>> ELSE << >>
        /\ puts' = 0
        /\ last' = Call("ReadWeight", << >>,
                        IF ~m_IsCalibrated THEN UNCALIBRATED_READ_VALUE
                        ELSE IF MA_Divisor(added) = 0 THEN Indeterminate
                        ELSE ScaledValue(MA_Average(added), m_RawTareWeight,
                                         m_UnitsScaleFactor, m_Offset))
        /\ UNCHANGED <<cal, m_pName, nvs>>

\* LoadCell::ResetAverage()
ResetAverage ==
    /\ m_MovingAverage' = MA_Reset(m_MovingAverage)
    /\ hx' = << >>
    /\ puts' = 0
    /\ last' = Call("ResetAverage", << >>, TRUE)
    /\ UNCHANGED <<cal, m_pName, nvs>>

\* A mutation of SetAverageInterval: a change of the window size clears
\* the calibrated flag.
SetAverageInterval_ClearsCalibrated(interval) ==
    LET ma == MA_SetSize(m_MovingAverage, ToU32(interval))
        size == MA_Size(ma)
    IN  /\ m_MovingAverage' = ma
        /\ m_AverageInterval' = DInt(size)
        /\ m_IsCalibrated' = (m_IsCalibrated
                                /\ size = MA_Size(m_MovingAverage))
        /\ hx' = << >>
        /\ puts' = 0
        /\ last' = Call("SetAverageInterval", <<interval>>, size = interval)
        /\ UNCHANGED <<m_Gain, m_RawTareWeight, m_Offset,
                       m_Units, m_UnitsScaleFactor, m_ConversionFactor,
                       m_pName, nvs>>

\* LoadCell::SetAverageInterval(interval), interval an int32_t.
SetAverageInterval(interval) ==
    LET ma == MA_SetSize(m_MovingAverage, ToU32(interval))
        size == MA_Size(ma)
    IN  /\ m_MovingAverage' = ma
        /\ m_AverageInterval' = DInt(size)
        /\ hx' = << >>
        /\ puts' = 0
        /\ last' = Call("SetAverageInterval", <<interval>>, size = interval)
        /\ UNCHANGED <<m_Gain, m_RawTareWeight, m_IsCalibrated, m_Offset,
                       m_Units, m_UnitsScaleFactor, m_ConversionFactor,
                       m_pName, nvs>>

\* A mutation of ConversionFactor: the two base factors are multiplied.
ConversionFactor_Product(oldUnits, newUnits) ==
    DMul(GetBaseUnitsFactor(oldUnits), GetBaseUnitsFactor(newUnits))

\* m_ConversionFactor = toBaseFactor / fromBaseFactor.
ConversionFactor(oldUnits, newUnits) ==
    DDiv(GetBaseUnitsFactor(oldUnits), GetBaseUnitsFactor(newUnits))

\* A mutation of UnitsChanged: the offset is not converted.
UnitsChanged_OffsetKept(offset, scale, conversion, units, newUnits) ==
    LET bad == \/ DIsZero(GetBaseUnitsFactor(units))
               \/ DIsZero(GetBaseUnitsFactor(newUnits))
        factor == ConversionFactor(units, newUnits)
    IN  IF newUnits = units \/ bad
        THEN [m_Offset |-> offset, m_UnitsScaleFactor |-> scale,
              m_ConversionFactor |-> conversion, m_Units |-> units,
              status |-> newUnits = units]
        ELSE [m_Offset |-> offset,
              m_UnitsScaleFactor |-> DMul(scale, factor),
              m_ConversionFactor |-> factor, m_Units |-> newUnits,
              status |-> TRUE]

\* A mutation of UnitsChanged: status starts false, so that a call with the
\* current units fails.
UnitsChanged_StatusFalse(offset, scale, conversion, units, newUnits) ==
    LET bad == \/ DIsZero(GetBaseUnitsFactor(units))
               \/ DIsZero(GetBaseUnitsFactor(newUnits))
        factor == ConversionFactor(units, newUnits)
    IN  IF newUnits = units \/ bad
        THEN [m_Offset |-> offset, m_UnitsScaleFactor |-> scale,
              m_ConversionFactor |-> conversion, m_Units |-> units,
              status |-> FALSE]
        ELSE [m_Offset |-> DMul(offset, factor),
              m_UnitsScaleFactor |-> DMul(scale, factor),
              m_ConversionFactor |-> factor, m_Units |-> newUnits,
              status |-> TRUE]

\* The members written by LoadCell::SetUnits(newUnits), and its status, as
\* a function of their values before the call.
UnitsChanged(offset, scale, conversion, units, newUnits) ==
    LET bad == \/ DIsZero(GetBaseUnitsFactor(units))
               \/ DIsZero(GetBaseUnitsFactor(newUnits))
        factor == ConversionFactor(units, newUnits)
    IN  IF newUnits = units \/ bad
        THEN [m_Offset |-> offset, m_UnitsScaleFactor |-> scale,
              m_ConversionFactor |-> conversion, m_Units |-> units,
              status |-> newUnits = units]
        ELSE [m_Offset |-> DMul(offset, factor),
              m_UnitsScaleFactor |-> DMul(scale, factor),
              m_ConversionFactor |-> factor, m_Units |-> newUnits,
              status |-> TRUE]

\* LoadCell::SetUnits(newUnits)
SetUnits(newUnits) ==
    LET changed == UnitsChanged(m_Offset, m_UnitsScaleFactor,
                                m_ConversionFactor, m_Units, newUnits)
    IN  /\ m_ConversionFactor' = changed.m_ConversionFactor
        /\ m_Offset' = changed.m_Offset
        /\ m_UnitsScaleFactor' = changed.m_UnitsScaleFactor
        /\ m_Units' = changed.m_Units
        /\ hx' = << >>
        /\ puts' = 0
        /\ last' = Call("SetUnits", <<newUnits>>, changed.status)
        /\ UNCHANGED <<m_Gain, m_RawTareWeight, m_IsCalibrated,
                       m_AverageInterval, m_MovingAverage, m_pName, nvs>>

\* LoadCell::SetUnits(newUnits) statement by statement, for a call that
\* converts (new units differ, both factors good).  The call is entered
\* here; before records the members as they are on entry.
SetUnits_Enter(newUnits) ==
    /\ pc = "idle"
    /\ newUnits # m_Units
    /\ ~DIsZero(GetBaseUnitsFactor(m_Units))
    /\ ~DIsZero(GetBaseUnitsFactor(newUnits))
    /\ entered' = [newUnits |-> newUnits,
                before |-> [m_Offset |-> m_Offset,
                            m_UnitsScaleFactor |-> m_UnitsScaleFactor,
                            m_Units |-> m_Units]]
    /\ pc' = "m_ConversionFactor"
    /\ UNCHANGED <<cal, m_MovingAverage, m_pName, nvs, hx, puts, last,
                   masked, seen, history>>

\* m_ConversionFactor = toBaseFactor / fromBaseFactor;
SetUnits_ConversionFactor ==
    /\ pc = "m_ConversionFactor"
    /\ m_ConversionFactor' = ConversionFactor(m_Units, entered.newUnits)
    /\ pc' = "noInterrupts"
    /\ UNCHANGED <<m_Gain, m_RawTareWeight, m_IsCalibrated, m_Offset,
                   m_Units, m_AverageInterval, m_UnitsScaleFactor,
                   m_MovingAverage, m_pName, nvs, hx, puts, last,
                   masked, entered, seen, history>>

\* A mutation of SetUnits_noInterrupts: interrupts stay enabled.
SetUnits_noInterrupts_Omitted ==
    /\ pc = "noInterrupts"
    /\ pc' = "m_Offset"
    /\ UNCHANGED <<cal, m_MovingAverage, m_pName, nvs, hx, puts, last,
                   masked, entered, seen, history>>

\* noInterrupts();
SetUnits_noInterrupts ==
    /\ pc = "noInterrupts"
    /\ masked' = TRUE
    /\ pc' = "m_Offset"
    /\ UNCHANGED <<cal, m_MovingAverage, m_pName, nvs, hx, puts, last,
                   entered, seen, history>>

\* m_Offset *= m_ConversionFactor;
SetUnits_Offset ==
    /\ pc = "m_Offset"
    /\ m_Offset' = DMul(m_Offset, m_ConversionFactor)
    /\ pc' = "m_UnitsScaleFactor"
    /\ UNCHANGED <<m_Gain, m_RawTareWeight, m_IsCalibrated, m_Units,
                   m_AverageInterval, m_UnitsScaleFactor,
                   m_ConversionFactor, m_MovingAverage, m_pName, nvs, hx,
                   puts, last, masked, entered, seen, history>>

\* m_UnitsScaleFactor *= m_ConversionFactor;
SetUnits_UnitsScaleFactor ==
    /\ pc = "m_UnitsScaleFactor"
    /\ m_UnitsScaleFactor' = DMul(m_UnitsScaleFactor, m_ConversionFactor)
    /\ pc' = "m_Units"
    /\ UNCHANGED <<m_Gain, m_RawTareWeight, m_IsCalibrated, m_Offset,
                   m_Units, m_AverageInterval, m_ConversionFactor,
                   m_MovingAverage, m_pName, nvs, hx, puts, last,
                   masked, entered, seen, history>>

\* m_Units = newUnits;
SetUnits_Units ==
    /\ pc = "m_Units"
    /\ m_Units' = entered.newUnits
    /\ pc' = "interrupts"
    /\ UNCHANGED <<m_Gain, m_RawTareWeight, m_IsCalibrated, m_Offset,
                   m_AverageInterval, m_UnitsScaleFactor,
                   m_ConversionFactor, m_MovingAverage, m_pName, nvs, hx,
                   puts, last, masked, entered, seen, history>>

\* interrupts();
SetUnits_interrupts ==
    /\ pc = "interrupts"
    /\ masked' = FALSE
    /\ pc' = "return"
    /\ UNCHANGED <<cal, m_MovingAverage, m_pName, nvs, hx, puts, last,
                   entered, seen, history>>

\* return status;
SetUnits_Return ==
    /\ pc = "return"
    /\ pc' = "idle"
    /\ hx' = << >>
    /\ puts' = 0
    /\ last' = Call("SetUnits", <<entered.newUnits>>, TRUE)
    /\ UNCHANGED <<cal, m_MovingAverage, m_pName, nvs, masked, entered, seen,
                   history>>

\* An interrupt handler that reads DisplayOffset, ScaleFactor and Units.
\* It runs only while interrupts are enabled, and to its end before the
\* interrupted program goes on.
Handler ==
    /\ ~masked
    /\ seen' = [at |-> pc, m_Offset |-> m_Offset,
                m_UnitsScaleFactor |-> m_UnitsScaleFactor,
                m_Units |-> m_Units]
    /\ UNCHANGED <<cal, m_MovingAverage, m_pName, nvs, hx, puts, last,
                   pc, masked, entered, history>>

\* MovingAverage::Add(val) on the filter.
FilterAdd(val) ==
    /\ m_MovingAverage' = MA_Add(m_MovingAverage, val)
    /\ history' = Append(history, val)
    /\ hx' = << >>
    /\ puts' = 0
    /\ last' = Call("Add", <<val>>, MA_Add(m_MovingAverage, val).m_Total)
    /\ UNCHANGED <<cal, m_pName, nvs, pc, masked, entered, seen>>

\* MovingAverage::Reset() on the filter.
FilterReset ==
    /\ m_MovingAverage' = MA_Reset(m_MovingAverage)
    /\ history' = << >>
    /\ hx' = << >>
    /\ puts' = 0
    /\ last' = Call("Reset", << >>, TRUE)
    /\ UNCHANGED <<cal, m_pName, nvs, pc, masked, entered, seen>>

\* MovingAverage::SetSize(newSize) on the filter; Reset() is called when
\* the clipped size differs from the current one.
FilterSetSize(newSize) ==
    LET ma == MA_SetSize(m_MovingAverage, newSize)
    IN  /\ m_MovingAverage' = ma
        /\ history' = IF ma.m_Size # m_MovingAverage.m_Size THEN << >>
                                                           ELSE history
        /\ hx' = << >>
        /\ puts' = 0
        /\ last' = Call("SetSize", <<newSize>>, ma.m_Size)
        /\ UNCHANGED <<cal, m_pName, nvs, pc, masked, entered, seen>>

\* LoadCell::SetOffset(newOffset)
SetOffset(newOffset) ==
    /\ m_Offset' = newOffset
    /\ m_MovingAverage' = MA_Reset(m_MovingAverage)
    /\ hx' = << >>
    /\ puts' = 0
    /\ last' = Call("SetOffset", <<newOffset>>, TRUE)
    /\ UNCHANGED <<m_Gain, m_RawTareWeight, m_IsCalibrated, m_Units,
                   m_AverageInterval, m_UnitsScaleFactor, m_ConversionFactor,
                   m_pName, nvs>>

\* The SaveRestoreCache built from the working state.  padding stands for
\* the bytes between the members, which the code never initialises and
\* memcmp() compares.
SaveRestoreCache(padding) ==
    [m_Gain |-> m_Gain, m_RawTareWeight |-> m_RawTareWeight,
     m_IsCalibrated |-> m_IsCalibrated, m_Offset |-> m_Offset,
     m_Units |-> m_Units, m_AverageInterval |-> m_AverageInterval,
     m_UnitsScaleFactor |-> m_UnitsScaleFactor,
     m_ConversionFactor |-> m_ConversionFactor, padding |-> padding]

\* LoadCell::Save().  padding is the content of the padding bytes of the
\* local currentState.  putBytes() is taken to succeed.
Save(padding) ==
    LET currentState == SaveRestoreCache(padding)
        write == m_pName # NULL /\ (nvs[m_pName] = NoBlob
                                    \/ nvs[m_pName] # <<currentState>>)
    IN  /\ nvs' = IF write THEN [nvs EXCEPT ![m_pName] = <<currentState>>]
                           ELSE nvs
        /\ puts' = IF write THEN 1 ELSE 0
        /\ hx' = << >>
        /\ last' = Call("Save", << >>, m_pName # NULL)
        /\ UNCHANGED <<cal, m_MovingAverage, m_pName>>

\* A mutation of Restore: when nothing is restored the calibrated flag is
\* cleared and the filter is reset.
Restore_ClearsOnMiss(sample) ==
    LET found == m_pName # NULL /\ nvs[m_pName] # NoBlob
        cachedState == nvs[m_pName][1]
        gainSet == found /\ GainAccepted(cachedState.m_Gain, m_Gain)
        afterGain == IF gainSet THEN MA_Reset(m_MovingAverage)
                                ELSE m_MovingAverage
    IN  /\ IF found
           THEN /\ m_IsCalibrated' = IF gainSet THEN FALSE
                                     ELSE cachedState.m_IsCalibrated
                /\ m_Gain' = IF gainSet THEN cachedState.m_Gain ELSE m_Gain
                /\ m_RawTareWeight' = cachedState.m_RawTareWeight
                /\ m_UnitsScaleFactor' = cachedState.m_UnitsScaleFactor
                /\ m_AverageInterval' = cachedState.m_AverageInterval
                /\ m_MovingAverage' =
                      MA_SetSize(afterGain,
                                 ToU32(DToI32(cachedState.m_AverageInterval)))
                /\ m_Offset' = cachedState.m_Offset
                /\ m_Units' = cachedState.m_Units
                /\ m_ConversionFactor' = cachedState.m_ConversionFactor
           ELSE /\ m_IsCalibrated' = FALSE
                /\ m_MovingAverage' = MA_Reset(m_MovingAverage)
                /\ UNCHANGED <<m_Gain, m_RawTareWeight, m_Offset, m_Units,
                               m_AverageInterval, m_UnitsScaleFactor,
                               m_ConversionFactor>>
        /\ hx' = IF gainSet THEN <<sample>> ELSE << >>
        /\ puts' = 0
        /\ last' = Call("Restore", << >>, found)
        /\ UNCHANGED <<m_pName, nvs>>

\* A mutation of Restore: the restored averaging interval is stored but
\* the filter is not resized.
Restore_SkipsSetSize(sample) ==
    LET found == m_pName # NULL /\ nvs[m_pName] # NoBlob
        cachedState == nvs[m_pName][1]
        gainSet == found /\ GainAccepted(cachedState.m_Gain, m_Gain)
        afterGain == IF gainSet THEN MA_Reset(m_MovingAverage)
                                ELSE m_MovingAverage
    IN  /\ IF found
           THEN /\ m_IsCalibrated' = IF gainSet THEN FALSE
                                     ELSE cachedState.m_IsCalibrated
                /\ m_Gain' = IF gainSet THEN cachedState.m_Gain ELSE m_Gain
                /\ m_RawTareWeight' = cachedState.m_RawTareWeight
                /\ m_UnitsScaleFactor' = cachedState.m_UnitsScaleFactor
                /\ m_AverageInterval' = cachedState.m_AverageInterval
                /\ m_MovingAverage' = afterGain
                /\ m_Offset' = cachedState.m_Offset
                /\ m_Units' = cachedState.m_Units
                /\ m_ConversionFactor' = cachedState.m_ConversionFactor
           ELSE UNCHANGED <<cal, m_MovingAverage>>
        /\ hx' = IF gainSet THEN <<sample>> ELSE << >>
        /\ puts' = 0
        /\ last' = Call("Restore", << >>, found)
        /\ UNCHANGED <<m_pName, nvs>>

\* LoadCell::Restore().  sample is the throwaway reading of SetGain().
Restore(sample) ==
    LET found == m_pName # NULL /\ nvs[m_pName] # NoBlob
        cachedState == nvs[m_pName][1]
        gainSet == found /\ GainAccepted(cachedState.m_Gain, m_Gain)
        afterGain == IF gainSet THEN MA_Reset(m_MovingAverage)
                                ELSE m_MovingAverage
    IN  /\ IF found
           THEN /\ m_IsCalibrated' = IF gainSet THEN FALSE
                                     ELSE cachedState.m_IsCalibrated
                /\ m_Gain' = IF gainSet THEN cachedState.m_Gain ELSE m_Gain
                /\ m_RawTareWeight' = cachedState.m_RawTareWeight
                /\ m_UnitsScaleFactor' = cachedState.m_UnitsScaleFactor
                /\ m_AverageInterval' = cachedState.m_AverageInterval
                /\ m_MovingAverage' =
                      MA_SetSize(afterGain,
                                 ToU32(DToI32(cachedState.m_AverageInterval)))
                /\ m_Offset' = cachedState.m_Offset
                /\ m_Units' = cachedState.m_Units
                /\ m_ConversionFactor' = cachedState.m_ConversionFactor
           ELSE UNCHANGED <<cal, m_MovingAverage>>
        /\ hx' = IF gainSet THEN <<sample>> ELSE << >>
        /\ puts' = 0
        /\ last' = Call("Restore", << >>, found)
        /\ UNCHANGED <<m_pName, nvs>>

\* LoadCell::Reset().  remove() reports whether the key was stored.
Reset ==
    /\ nvs' = IF m_pName # NULL THEN [nvs EXCEPT ![m_pName] = NoBlob] ELSE nvs
    /\ hx' = << >>
    /\ puts' = 0
    /\ last' = Call("Reset", << >>, m_pName # NULL /\ nvs[m_pName] # NoBlob)
    /\ UNCHANGED <<cal, m_MovingAverage, m_pName>>

\* LoadCell::LoadCell(dout, sck, gain = DEFAULT_GAIN) after a restart: a
\* new instance with the constructor's values, the NVS keeping its content.
Construct ==
    /\ m_Gain' = DEFAULT_GAIN
    /\ m_RawTareWeight' = 0
    /\ m_IsCalibrated' = FALSE
    /\ m_Offset' = DRat(0, 1)
    /\ m_Units' = eWuGrams
    /\ m_AverageInterval' = DEFAULT_AVERAGE_INTERVAL
    /\ m_UnitsScaleFactor' = DRat(1, 1)
    /\ m_ConversionFactor' = DRat(1, 1)
    /\ m_MovingAverage' = MA_New(U32(DToI32(DEFAULT_AVERAGE_INTERVAL)))
    /\ m_pName' = NULL
    /\ hx' = << >>
    /\ puts' = 0
    /\ last' = Call("LoadCell", << >>, TRUE)
    /\ UNCHANGED nvs

\* ------------------------------------------------------------------------
\* The tare retry loops of the menu handlers (ScaleMenu.cpp)
\* ------------------------------------------------------------------------
MAX_ZERO_RETRIES == 5
MAX_TARE_RETRIES == 5

RetryHandlers == {"HandleReadyForTare", "HandleCalibrationEmpty"}

MaxRetries(handler) ==
    IF handler = "HandleCalibrationEmpty" THEN MAX_ZERO_RETRIES
                                          ELSE MAX_TARE_RETRIES

\* HandleReadyForTare() and HandleCalibrationEmpty(e) up to the loop:
\* gTft.DisplayWorkingScreen(); bool success = false; uint16_t i = 0.
\* before records the tare weight on entry.
Retry_Enter(handler) ==
    /\ retry.pc # "loop"
    /\ retry' = [pc |-> "loop", handler |-> handler, i |-> 0,
                 success |-> FALSE, before |-> m_RawTareWeight,
                 status |-> NULL]
    /\ hx' = << >>
    /\ puts' = 0
    /\ last' = Call("DisplayWorkingScreen", << >>, TRUE)
    /\ UNCHANGED <<cal, m_MovingAverage, m_pName, nvs, irq, lock>>

\* A mutation of Retrying: the loop does not test success.
Retrying_PastSuccess(r) == r.i < MaxRetries(r.handler)

\* The loop condition: !success && (i < MAX_TARE_RETRIES).
Retrying(r) == ~r.success /\ r.i < MaxRetries(r.handler)

\* One iteration: success = gLoadCell.Tare(); i++.
\* reads are the values read from the HX711 by the Tare.
Retry_Tare(reads) ==
    /\ retry.pc = "loop"
    /\ Retrying(retry)
    /\ Tare(DEFAULT_TARE_COUNT, reads)
    /\ retry' = [retry EXCEPT !.success = last'.ret, !.i = retry.i + 1]
    /\ UNCHANGED <<irq, lock>>

\* The loop is left: gTft.DisplayResult(success, ...), whose first
\* argument is recorded as the result of the call, and the status
\* returned.  Only HandleCalibrationEmpty proceeds, and only on success.
Retry_Done ==
    /\ retry.pc = "loop"
    /\ ~Retrying(retry)
    /\ retry' = [retry EXCEPT
                    !.pc = "done",
                    !.status = IF retry.success
                                  /\ retry.handler = "HandleCalibrationEmpty"
                               THEN "proceed" ELSE "quit"]
    /\ hx' = << >>
    /\ puts' = 0
    /\ last' = Call("DisplayResult", << >>, retry.success)
    /\ UNCHANGED <<cal, m_MovingAverage, m_pName, nvs, irq, lock>>

\* ------------------------------------------------------------------------
\* The options lock (SimpleLock.h, WebData.cpp, ScaleMenu.cpp)
\* ------------------------------------------------------------------------
WEB_WD_TIMEOUT_MS == 10000

\* SimpleLock::Lock(owner): the lock after the call and the status returned.
SL_Lock(l, owner) ==
    IF l.m_Owner = UNOWNED
    THEN [lock |-> [l EXCEPT !.m_Owner = owner], status |-> TRUE]
    ELSE [lock |-> l, status |-> FALSE]

\* SimpleLock::Unlock()
SL_Unlock(l) == [l EXCEPT !.m_Owner = UNOWNED]

\* What a call on the lock leaves alone: the load cell, the interrupt
\* bookkeeping and the retry loop.  No value is read from the HX711.
LockFrame ==
    /\ hx' = << >>
    /\ puts' = 0
    /\ UNCHANGED <<m_MovingAverage, m_pName, nvs, irq, retry>>

\* WebData::LockLocal()
LockLocal ==
    LET locked == SL_Lock(gWebLock, LOCAL_OWNER)
    IN  /\ gWebLock' = locked.lock
        /\ last' = Call("LockLocal", << >>, locked.status)
        /\ LockFrame
        /\ UNCHANGED <<cal, gWebWdTime, millis, web>>

\* The idleEvent values passed to MenuIdle.
idleStart == 0
idling == 1
idleEnd == 2

\* MenuIdle(o, e), called when the menu system is left: WebData::Unlock()
\* unless e is idleEnd.
MenuIdle(e) ==
    /\ gWebLock' = IF e # idleEnd THEN SL_Unlock(gWebLock) ELSE gWebLock
    /\ last' = Call("MenuIdle", <<e>>, TRUE)
    /\ LockFrame
    /\ UNCHANGED <<cal, gWebWdTime, millis, web>>

\* A mutation of HandleWebTimeout: the owner of the lock is not tested.
HandleWebTimeout_AnyOwner ==
    /\ gWebLock' = IF (millis - gWebWdTime) > WEB_WD_TIMEOUT_MS
                   THEN SL_Unlock(gWebLock) ELSE gWebLock
    /\ last' = Call("HandleWebTimeout", << >>, TRUE)
    /\ LockFrame
    /\ UNCHANGED <<cal, gWebWdTime, millis, web>>

\* WebData::HandleWebTimeout().  millis() - gWebWdTime is a difference of
\* uint32_t values; millis() stays below 2^32 here and gWebWdTime is an
\* earlier value of it.
HandleWebTimeout ==
    /\ gWebLock' = IF gWebLock.m_Owner = WEB_OWNER
                      /\ (millis - gWebWdTime) > WEB_WD_TIMEOUT_MS
                   THEN SL_Unlock(gWebLock) ELSE gWebLock
    /\ last' = Call("HandleWebTimeout", << >>, TRUE)
    /\ LockFrame
    /\ UNCHANGED <<cal, gWebWdTime, millis, web>>

\* HandleLockOptions(), the handler of /lockOptions.
HandleLockOptions ==
    LET locked == SL_Lock(gWebLock, WEB_OWNER)
    IN  /\ gWebLock' = locked.lock
        /\ web' = [web EXCEPT !.heard = millis]
        /\ last' = Call("HandleLockOptions", << >>, locked.status)
        /\ LockFrame
        /\ UNCHANGED <<cal, gWebWdTime, millis>>

\* HandleUnlockOptions(), the handler of /unlockOptions.
HandleUnlockOptions ==
    /\ gWebLock' = SL_Unlock(gWebLock)
    /\ web' = [web EXCEPT !.heard = millis]
    /\ last' = Call("HandleUnlockOptions", << >>, TRUE)
    /\ LockFrame
    /\ UNCHANGED <<cal, gWebWdTime, millis>>

\* HandleMainPageData(), the handler of /getMainPageData: the only place
\* where gWebWdTime is assigned.
HandleMainPageData ==
    /\ gWebWdTime' = millis
    /\ web' = [web EXCEPT !.heard = millis]
    /\ last' = Call("HandleMainPageData", << >>, TRUE)
    /\ LockFrame
    /\ UNCHANGED <<cal, gWebLock, millis>>

\* SendDisplayFormData(), the handler of /getDisplayFormData.
SendDisplayFormData ==
    LET locked == SL_Lock(gWebLock, WEB_OWNER)
    IN  /\ gWebLock' = locked.lock
        /\ web' = [web EXCEPT !.heard = millis]
        /\ last' = Call("SendDisplayFormData", << >>, locked.status)
        /\ LockFrame
        /\ UNCHANGED <<cal, gWebWdTime, millis>>

\* SaveDisplayFormData(), the handler of /updateDisplayData.  error is the
\* result of deserializeJson, weightUnitsData the units of the request.
\* SetLoadCellUnits (declared in JmcFilamentScale.h) passes the units on to
\* LoadCell::SetUnits.  The value recorded is response == 200.
SaveDisplayFormData(error, weightUnitsData) ==
    LET changed == IF error
                   THEN [m_Offset |-> m_Offset,
                         m_UnitsScaleFactor |-> m_UnitsScaleFactor,
                         m_ConversionFactor |-> m_ConversionFactor,
                         m_Units |-> m_Units]
                   ELSE UnitsChanged(m_Offset, m_UnitsScaleFactor,
                                     m_ConversionFactor, m_Units,
                                     weightUnitsData)
    IN  /\ m_ConversionFactor' = changed.m_ConversionFactor
        /\ m_Offset' = changed.m_Offset
        /\ m_UnitsScaleFactor' = changed.m_UnitsScaleFactor
        /\ m_Units' = changed.m_Units
        /\ gWebLock' = SL_Unlock(gWebLock)
        /\ web' = [web EXCEPT !.heard = millis]
        /\ last' = Call("SaveDisplayFormData", << >>, ~error)
        /\ LockFrame
        /\ UNCHANGED <<m_Gain, m_RawTareWeight, m_IsCalibrated,
                       m_AverageInterval, gWebWdTime, millis>>

\* Time passes: millis() is looked at every TickMs milliseconds.
TickMs == 5000

Tick ==
    /\ millis' = millis + TickMs
    /\ UNCHANGED <<cal, m_MovingAverage, m_pName, nvs, hx, puts, last, irq,
                   retry, gWebLock, gWebWdTime, web>>

\* The web client goes away, or comes back.
WebConnection(connected) ==
    /\ web.connected # connected
    /\ web' = [web EXCEPT !.connected = connected]
    /\ UNCHANGED <<cal, m_MovingAverage, m_pName, nvs, hx, puts, last, irq,
                   retry, gWebLock, gWebWdTime, millis>>

\* ------------------------------------------------------------------------
\* Inputs
\* ------------------------------------------------------------------------
Const(n, x) == [i \in 1..n |-> x]

\* Bound on the number of values added to the filter between two resets.
MaxNumValues == 2

\* The reading thrown away at the start of ReadRawAverage.
FirstReads == {1003}

\* The two batches of the end-to-end scenarios.
ScenarioBatchA == <<1000, 1001, 999, 1000, 1002>>
ScenarioBatchB == <<1000, 1100, 900, 1000, 1000>>

\* Inputs of the measurement specification.
MainInputs ==
    [ RawSamples   |-> {1000, 2000},
      TareBatches  |-> { ScenarioBatchA, ScenarioBatchB,
                         Const(5, 1000),
                         <<1600, 1601, 1599, 1600, 1600>>,
                         Const(DEFAULT_TARE_COUNT, 1000) },
      CalBatches   |-> { Const(DEFAULT_TARE_COUNT, 2000),
                         Const(DEFAULT_TARE_COUNT - 1, 2000) \o <<2010>> },
      RawCalWeight |-> {U32(0), U32(2000)},
      CookedCalWeight |-> {DRat(500, 1)},
      Gain         |-> {32, 64, 128},
      Interval     |-> {1},
      Units        |-> {eWuGrams, eWuKiloGrams, eWuBadVal},
      Offset       |-> {DRat(50, 1)} ]

\* ------------------------------------------------------------------------
\* Specifications
\* ------------------------------------------------------------------------

\* The measurement operations over the inputs in.
Measure(in) ==
    \/ \E gain \in in.Gain, sample \in in.RawSamples : SetGain(gain, sample)
    \/ \E first \in FirstReads, batch \in in.TareBatches :
          Tare(Len(batch), <<first>> \o batch)
    \/ \E raw \in in.RawCalWeight, cooked \in in.CookedCalWeight :
          \/ Calibrate(raw, cooked, << >>)
          \/ \E first \in FirstReads, batch \in in.CalBatches :
                Calibrate(raw, cooked, <<first>> \o batch)
    \/ \E sample \in in.RawSamples :
          /\ m_MovingAverage.m_NumValues < MaxNumValues
          /\ ReadWeight(sample)
    \/ ResetAverage
    \/ \E interval \in in.Interval : SetAverageInterval(interval)
    \/ \E newUnits \in in.Units : SetUnits(newUnits)
    \/ \E newOffset \in in.Offset : SetOffset(newOffset)

Next == Measure(MainInputs) /\ UNCHANGED aux

Spec == Init /\ [][Next]_vars

\* Inputs of the persistence specification.
NvsInputs ==
    [ RawSamples   |-> {1500},
      TareBatches  |-> { Const(5, 1000), ScenarioBatchB },
      CalBatches   |-> { Const(DEFAULT_TARE_COUNT, 2000) },
      RawCalWeight |-> {U32(0), U32(2000)},
      CookedCalWeight |-> {DRat(500, 1)},
      Gain         |-> {64, 128},
      Interval     |-> {2},
      Units        |-> {eWuKiloGrams},
      Offset       |-> {DRat(50, 1)},
      Names        |-> {NULL, "LoadCell"},
      Ready        |-> {TRUE},
      Presence     |-> {0, 1500},
      Padding      |-> {0, 1} ]

\* The NVS operations over the inputs in.
Persist(in) ==
    \/ \E pName \in in.Names, ready \in in.Ready, sample \in in.Presence :
          InitLoadCell(pName, ready, sample)
    \/ \E padding \in in.Padding : Save(padding)
    \/ \E sample \in in.RawSamples : Restore(sample)
    \/ Reset

\* Bound on the number of values added to the filter between two resets
\* in SpecNvs.
MaxNumValuesNvs == 1

\* The measurement operations of SpecNvs: those of Measure without
\* ResetAverage and SetOffset.
MeasureNvs(in) ==
    \/ \E gain \in in.Gain, sample \in in.RawSamples : SetGain(gain, sample)
    \/ \E first \in FirstReads, batch \in in.TareBatches :
          Tare(Len(batch), <<first>> \o batch)
    \/ \E raw \in in.RawCalWeight, cooked \in in.CookedCalWeight :
          \/ Calibrate(raw, cooked, << >>)
          \/ \E first \in FirstReads, batch \in in.CalBatches :
                Calibrate(raw, cooked, <<first>> \o batch)
    \/ \E sample \in in.RawSamples :
          /\ m_MovingAverage.m_NumValues < MaxNumValuesNvs
          /\ ReadWeight(sample)
    \/ \E interval \in in.Interval : SetAverageInterval(interval)
    \/ \E newUnits \in in.Units : SetUnits(newUnits)

NextNvs == (MeasureNvs(NvsInputs) \/ Persist(NvsInputs)) /\ UNCHANGED aux

SpecNvs == Init /\ [][NextNvs]_vars

\* Inputs of the calibration specification: raw references below, at and
\* above the tare weight, given or acquired, and an illegal gain.
CalInputs ==
    [ RawSamples   |-> {1500},
      TareBatches  |-> { Const(5, 1000), ScenarioBatchB },
      CalBatches   |-> { Const(DEFAULT_TARE_COUNT, 2000),
                         Const(DEFAULT_TARE_COUNT, 600),
                         Const(DEFAULT_TARE_COUNT - 1, 2000) \o <<2010>> },
      RawCalWeight |-> {U32(0), U32(500), U32(1000), U32(2000)},
      CookedCalWeight |-> {DRat(500, 1)},
      Gain         |-> {32, 64, 128},
      Interval     |-> {1},
      Units        |-> {eWuGrams},
      Offset       |-> {DRat(50, 1)} ]

\* Inputs of the units specification: the four units and a bad value.
UnitsInputs ==
    [ RawSamples   |-> {1500},
      TareBatches  |-> { Const(5, 1000) },
      RawCalWeight |-> {U32(2000)},
      CookedCalWeight |-> {DRat(500, 1)},
      Units        |-> {eWuGrams, eWuKiloGrams, eWuOunces, eWuPounds,
                        eWuBadVal},
      Offset       |-> {DRat(50, 1)} ]

\* The operations of the units specification over the inputs in.
MeasureUnits(in) ==
    \/ \E first \in FirstReads, batch \in in.TareBatches :
          Tare(Len(batch), <<first>> \o batch)
    \/ \E raw \in in.RawCalWeight, cooked \in in.CookedCalWeight :
          Calibrate(raw, cooked, << >>)
    \/ \E sample \in in.RawSamples :
          /\ m_MovingAverage.m_NumValues < MaxNumValuesNvs
          /\ ReadWeight(sample)
    \/ \E newUnits \in in.Units : SetUnits(newUnits)
    \/ \E newOffset \in in.Offset : SetOffset(newOffset)

NextUnits == MeasureUnits(UnitsInputs) /\ UNCHANGED aux

SpecUnits == Init /\ [][NextUnits]_vars

NextCal == Measure(CalInputs) /\ UNCHANGED aux

SpecCal == Init /\ [][NextCal]_vars

\* The interrupt specification: the main program sets the display offset
\* and changes the units statement by statement, and the handler runs
\* whenever interrupts are enabled.
IrqUnits == {eWuGrams, eWuKiloGrams, eWuOunces, eWuBadVal}
IrqOffsets == {DRat(50, 1)}

NextIrq ==
    /\ UNCHANGED <<retry, lock>>
    /\ \/ /\ pc = "idle"
          /\ UNCHANGED irq
          /\ \/ \E newOffset \in IrqOffsets : SetOffset(newOffset)
             \/ \E newUnits \in IrqUnits :
                   /\ UnitsChanged(m_Offset, m_UnitsScaleFactor,
                                   m_ConversionFactor, m_Units,
                                   newUnits).m_Units
                      = m_Units
                   /\ SetUnits(newUnits)
       \/ \E newUnits \in IrqUnits : SetUnits_Enter(newUnits)
       \/ SetUnits_ConversionFactor
       \/ SetUnits_noInterrupts
       \/ SetUnits_Offset
       \/ SetUnits_UnitsScaleFactor
       \/ SetUnits_Units
       \/ SetUnits_interrupts
       \/ SetUnits_Return
       \/ Handler

SpecIrq == Init /\ [][NextIrq]_vars

\* Bound on the number of values added to the filter between two resets
\* in SpecFilter.
MaxAdded == 4

\* Values added and sizes set in SpecFilter; the sums of up to three of
\* the values tell which values were summed.
FilterValues == {1, 10, 100}
FilterSizes == {0, 1, 2, 3}

NextFilter ==
    /\ UNCHANGED <<retry, lock>>
    /\ \/ \E val \in FilterValues :
             /\ Len(history) < MaxAdded
             /\ FilterAdd(val)
       \/ FilterReset
       \/ \E newSize \in FilterSizes : FilterSetSize(U32(newSize))

SpecFilter == Init /\ [][NextFilter]_vars

\* Bound on the number of readings averaged by ReadRawAverage in SpecAvg.
MaxCount == 3

\* Readings offered to ReadRawAverage in SpecAvg: around the means at which
\* avg / 800 steps from 0 to 1 and from 1 to 2, zero, and a negative value.
AvgSamples == {-1600, 0, 799, 800, 801, 1599, 1600, 1601, 1602}

\* One ReadRawAverage on a constructed load cell, for every batch of
\* 1..MaxCount readings over AvgSamples.
NextAvg ==
    /\ last.op = "LoadCell"
    /\ UNCHANGED aux
    /\ \E count \in 1..MaxCount :
          \E reads \in [1..(count + 1) -> AvgSamples] :
              ReadRawAverageCall(count, reads)

SpecAvg == Init /\ [][NextAvg]_vars

\* One ReadRawAverage or one Tare on a constructed load cell, for every
\* batch of 1..MaxCount readings over AvgSamples.
NextBand ==
    /\ last.op = "LoadCell"
    /\ UNCHANGED aux
    /\ \E count \in 1..MaxCount :
          \E reads \in [1..(count + 1) -> AvgSamples] :
              \/ ReadRawAverageCall(count, reads)
              \/ Tare(count, reads)

SpecBand == Init /\ [][NextBand]_vars

\* Bound on the value that m_NumValues reaches after it has wrapped around
\* in SpecWrap and SpecWrapFilter.
MaxWrapped == 4

\* The filter after SetSize(size) and 2^32 - 2 calls of Add(val) with no
\* reset in between: every slot of the window holds val, and m_NumValues
\* is 2^32 - 2, held as -2.
WrapFilter(size, val) ==
    [m_Values |-> [i \in 0..(size - 1) |-> val],
     m_NumValues |-> -2,
     m_Size |-> size,
     m_Total |-> size * val]

WrapSizes == {2, 3}
WrapSamples == {1000, 2000}

\* A load cell that was tared with mean 1000, calibrated with
\* Calibrate(2000, 500.0), given a window of 2 or 3 values, and then read
\* 2^32 - 2 times with the raw value 1500.
InitWrap ==
    /\ m_Gain = DEFAULT_GAIN
    /\ m_RawTareWeight = 1000
    /\ m_IsCalibrated = TRUE
    /\ m_Offset = DRat(0, 1)
    /\ m_Units = eWuGrams
    /\ m_UnitsScaleFactor = DDiv(DRat(500, 1), DInt(2000 - 1000))
    /\ m_ConversionFactor = DRat(1, 1)
    /\ \E size \in WrapSizes :
          /\ m_AverageInterval = DInt(size)
          /\ m_MovingAverage = WrapFilter(size, 1500)
    /\ m_pName = NULL
    /\ nvs = [name \in NvsNames |-> NoBlob]
    /\ hx = <<1500>>
    /\ puts = 0
    /\ last = Call("ReadWeight", << >>,
                   ScaledValue(1500, 1000, DRat(1, 2), DRat(0, 1)))
    /\ pc = "idle"
    /\ masked = FALSE
    /\ entered = << >>
    /\ seen = << >>
    /\ history = << >>
    /\ InitApp

\* Reads, resets and window changes of the load cell around the point
\* where m_NumValues wraps.
NextWrap ==
    /\ UNCHANGED aux
    /\ \/ \E sample \in WrapSamples :
             /\ m_MovingAverage.m_NumValues < MaxWrapped
             /\ ReadWeight(sample)
       \/ ResetAverage
       \/ \E interval \in WrapSizes : SetAverageInterval(interval)

SpecWrap == InitWrap /\ [][NextWrap]_vars

\* The filter on its own after SetSize(size) and 2^32 - 2 calls of Add(1),
\* history holding the last size of the values added.
InitWrapFilter ==
    /\ m_Gain = DEFAULT_GAIN
    /\ m_RawTareWeight = 0
    /\ m_IsCalibrated = FALSE
    /\ m_Offset = DRat(0, 1)
    /\ m_Units = eWuGrams
    /\ m_AverageInterval = DEFAULT_AVERAGE_INTERVAL
    /\ m_UnitsScaleFactor = DRat(1, 1)
    /\ m_ConversionFactor = DRat(1, 1)
    /\ \E size \in WrapSizes :
          /\ m_MovingAverage = WrapFilter(size, 1)
          /\ history = Const(size, 1)
          /\ last = Call("Add", <<1>>, size)
    /\ m_pName = NULL
    /\ nvs = [name \in NvsNames |-> NoBlob]
    /\ hx = << >>
    /\ puts = 0
    /\ pc = "idle"
    /\ masked = FALSE
    /\ entered = << >>
    /\ seen = << >>
    /\ InitApp

\* Values added to the filter around the point where m_NumValues wraps.
NextWrapFilter ==
    /\ UNCHANGED <<retry, lock>>
    /\ \E val \in FilterValues :
          /\ m_MovingAverage.m_NumValues < MaxWrapped
          /\ FilterAdd(val)

SpecWrapFilter == InitWrapFilter /\ [][NextWrapFilter]_vars

\* Batches read by a Tare of the retry loops, after the throwaway reading:
\* steady at 1000 and at 2000 (accepted), one reading out of the band
\* (rejected), and all zero (rejected).
RetryReads ==
    { Const(DEFAULT_TARE_COUNT + 1, 1000),
      Const(DEFAULT_TARE_COUNT + 1, 2000),
      Const(DEFAULT_TARE_COUNT, 1000) \o <<1002>>,
      Const(DEFAULT_TARE_COUNT + 1, 0) }

NextRetry ==
    \/ \E handler \in RetryHandlers : Retry_Enter(handler)
    \/ \E reads \in RetryReads : Retry_Tare(reads)
    \/ Retry_Done

\* A handler that has entered its loop goes on to the next statement: the
\* loop is straight-line code of the main task, and every read of the
\* HX711 is taken to return.
SpecRetry ==
    /\ Init
    /\ [][NextRetry]_vars
    /\ WF_vars(\E reads \in RetryReads : Retry_Tare(reads))
    /\ WF_vars(Retry_Done)

\* Bound on millis() in SpecWeb and SpecWebLive.
MaxMillis == 30000

WebUnits == {eWuGrams, eWuKiloGrams}

\* A request of the web client: it is connected, and enough time is left
\* below MaxMillis for the watchdog to expire after the request.
WebRequest ==
    /\ web.connected
    /\ millis + WEB_WD_TIMEOUT_MS + TickMs <= MaxMillis
    /\ \/ HandleLockOptions
       \/ HandleUnlockOptions
       \/ HandleMainPageData
       \/ SendDisplayFormData
       \/ \E error \in BOOLEAN, weightUnitsData \in WebUnits :
             SaveDisplayFormData(error, weightUnitsData)

\* The local user enters and leaves the options menu, the web client sends
\* requests, the main loop calls HandleWebTimeout, and time passes.
NextWeb ==
    \/ LockLocal
    \/ \E e \in {idleStart, idling, idleEnd} : MenuIdle(e)
    \/ WebRequest
    \/ HandleWebTimeout
    \/ millis < MaxMillis /\ Tick
    \/ \E connected \in BOOLEAN : WebConnection(connected)

SpecWeb == Init /\ [][NextWeb]_vars

\* The main loop calls HandleWebTimeout on every iteration and millis()
\* advances; the local user and the web client act when they like.
SpecWebLive ==
    /\ Init
    /\ [][NextWeb]_vars
    /\ WF_vars(HandleWebTimeout)
    /\ WF_vars(millis < MaxMillis /\ Tick)

\* Inputs of the window-size specification: intervals below, inside and
\* above [MIN_SIZE, MAX_SIZE], up to the ends of int32_t, and two
\* different raw samples.
SizeInputs ==
    [ RawSamples   |-> {1000, 2000},
      TareBatches  |-> { Const(5, 1000) },
      RawCalWeight |-> {U32(2000)},
      CookedCalWeight |-> {DRat(500, 1)},
      Interval     |-> {-2147483647, -1, 0, 1, 2, 100, 101, 2147483647},
      Names        |-> {"LoadCell"},
      Ready        |-> {TRUE},
      Presence     |-> {1500},
      Padding      |-> {0} ]

\* The operations of the window-size specification over the inputs in.
MeasureSize(in) ==
    \/ \E first \in FirstReads, batch \in in.TareBatches :
          Tare(Len(batch), <<first>> \o batch)
    \/ \E raw \in in.RawCalWeight, cooked \in in.CookedCalWeight :
          Calibrate(raw, cooked, << >>)
    \/ \E sample \in in.RawSamples :
          /\ m_MovingAverage.m_NumValues < MaxNumValues
          /\ ReadWeight(sample)
    \/ ResetAverage
    \/ \E interval \in in.Interval : SetAverageInterval(interval)
    \/ \E pName \in in.Names, ready \in in.Ready, sample \in in.Presence :
          InitLoadCell(pName, ready, sample)
    \/ \E padding \in in.Padding : Save(padding)
    \/ \E sample \in in.RawSamples : Restore(sample)

NextSize == MeasureSize(SizeInputs) /\ UNCHANGED aux

SpecSize == Init /\ [][NextSize]_vars

\* Inputs of the restart specification: the default gain and the other
\* legal one, and a value other than the default for every field saved.
BootInputs ==
    [ RawSamples   |-> {1500},
      TareBatches  |-> { Const(5, 1000) },
      RawCalWeight |-> {U32(2000)},
      CookedCalWeight |-> {DRat(500, 1)},
      Gain         |-> {64, 128},
      Interval     |-> {2},
      Units        |-> {eWuKiloGrams},
      Offset       |-> {DRat(50, 1)},
      Names        |-> {"LoadCell"},
      Ready        |-> {TRUE},
      Presence     |-> {1500},
      Padding      |-> {0} ]

\* The restart specification: operations that set each of the fields
\* saved, the NVS operations, and the construction of a new instance over
\* the same NVS.
Boot(in) ==
    \/ \E gain \in in.Gain, sample \in in.RawSamples : SetGain(gain, sample)
    \/ \E first \in FirstReads, batch \in in.TareBatches :
          Tare(Len(batch), <<first>> \o batch)
    \/ \E raw \in in.RawCalWeight, cooked \in in.CookedCalWeight :
          Calibrate(raw, cooked, << >>)
    \/ \E interval \in in.Interval : SetAverageInterval(interval)
    \/ \E newUnits \in in.Units : SetUnits(newUnits)
    \/ \E newOffset \in in.Offset : SetOffset(newOffset)
    \/ Persist(in)
    \/ Construct

NextBoot == Boot(BootInputs) /\ UNCHANGED aux

SpecBoot == Init /\ [][NextBoot]_vars

\* Inputs of the frame specification: a rejected and an accepted batch for
\* Tare and for Calibrate, and a rejected and an accepted gain.
KeepInputs ==
    [ RawSamples   |-> {1500},
      TareBatches  |-> { Const(5, 1000), ScenarioBatchB },
      CalBatches   |-> { Const(DEFAULT_TARE_COUNT, 2000),
                         Const(DEFAULT_TARE_COUNT - 1, 2000) \o <<2010>> },
      RawCalWeight |-> {U32(0), U32(2000)},
      CookedCalWeight |-> {DRat(500, 1)},
      Gain         |-> {32, 64, 128},
      Interval     |-> {2},
      Units        |-> {eWuKiloGrams},
      Offset       |-> {DRat(50, 1)},
      Names        |-> {"LoadCell"},
      Ready        |-> {TRUE},
      Presence     |-> {1500},
      Padding      |-> {0} ]

\* The frame specification: the measurement operations, Init and Save.
Keep(in) ==
    \/ MeasureNvs(in)
    \/ ResetAverage
    \/ \E newOffset \in in.Offset : SetOffset(newOffset)
    \/ \E pName \in in.Names, ready \in in.Ready, sample \in in.Presence :
          InitLoadCell(pName, ready, sample)
    \/ \E padding \in in.Padding : Save(padding)

NextKeep == Keep(KeepInputs) /\ UNCHANGED aux

SpecKeep == Init /\ [][NextKeep]_vars

\* ------------------------------------------------------------------------
\* Properties
\* ------------------------------------------------------------------------

\* The readings averaged by the last ReadRawAverage / Tare (hx without the
\* throwaway reading), and their mean, minimum and maximum.
Batch(reads) == SubSeq(reads, 2, Len(reads))
Mean(reads) == CDiv(SeqSum(Batch(reads)), Len(reads) - 1)
Band(reads) == CDiv(Mean(reads), 800)

\* C1: Calibrate returns false whenever TareOffset is 0, for every rawRef
\* and cookedRef; ScaleFactor, CalibratedFlag, TareOffset and the filter
\* window are then unchanged and no raw sample is drawn.
C1_CalibrateNeedsTare ==
    [][ (last'.op = "Calibrate" /\ m_RawTareWeight = 0)
        => /\ last'.ret = FALSE
           /\ hx' = << >>
           /\ UNCHANGED <<m_UnitsScaleFactor, m_IsCalibrated,
                          m_RawTareWeight, m_MovingAverage>> ]_vars

\* C1 witness: a Calibrate with a non-zero rawRef has failed on an untared
\* load cell.
C1_Witness ==
    /\ last.op = "Calibrate"
    /\ last.args[1] = U32(2000)
    /\ last.ret = FALSE
    /\ m_RawTareWeight = 0

\* C2: whenever CalibratedFlag is false, ReadWeight returns
\* UNCALIBRATED_READ_VALUE (ReadWeight itself never changes the flag).
C2_UncalibratedSentinel ==
    [][ (last'.op = "ReadWeight" /\ ~m_IsCalibrated)
        => (last'.ret = UNCALIBRATED_READ_VALUE /\ ~m_IsCalibrated') ]_vars

\* C2 witness: ReadWeight has returned the sentinel on a tared load cell
\* that lost its calibration (after a gain change).
C2_Witness ==
    /\ last.op = "ReadWeight"
    /\ last.ret = UNCALIBRATED_READ_VALUE
    /\ ~m_IsCalibrated
    /\ m_RawTareWeight # 0
    /\ m_UnitsScaleFactor # DRat(1, 1)

\* C3: a ReadWeight made while calibrated draws exactly one raw sample,
\* adds exactly that sample to the filter (one more value seen, the sample
\* in the slot of the oldest value, the total moved by the sample minus the
\* value evicted), and returns
\* (filterAverage - TareOffset) * ScaleFactor - DisplayOffset
\* for the filter average after the Add.
C3_CalibratedRead ==
    [][ (last'.op = "ReadWeight" /\ m_IsCalibrated)
        => LET old == m_MovingAverage
               new == m_MovingAverage'
               full == old.m_NumValues >= old.m_Size
               slot == IF full THEN old.m_NumValues % old.m_Size
                               ELSE old.m_NumValues
               evicted == IF full THEN old.m_Values[slot] ELSE 0
               average == CDiv(new.m_Total, Min(new.m_NumValues, new.m_Size))
           IN  /\ Len(hx') = 1
               /\ new.m_NumValues = old.m_NumValues + 1
               /\ new.m_Size = old.m_Size
               /\ new.m_Values[slot] = hx'[1]
               /\ \A i \in DOMAIN old.m_Values \ {slot} :
                     new.m_Values[i] = old.m_Values[i]
               /\ new.m_Total = old.m_Total + hx'[1] - evicted
               /\ last'.ret =
                     DSub(DMul(DSub(DInt(average), DInt(m_RawTareWeight)),
                               m_UnitsScaleFactor), m_Offset) ]_vars

\* C3 witness: a calibrated ReadWeight has evicted the oldest value of a
\* full window and returned a weight with a non-zero display offset.
C3_Witness ==
    /\ last.op = "ReadWeight"
    /\ m_IsCalibrated
    /\ m_MovingAverage.m_NumValues > m_MovingAverage.m_Size
    /\ ~DIsZero(m_Offset)
    /\ last.ret # UNCALIBRATED_READ_VALUE

C6_InclusiveBand ==
    last.op = "ReadRawAverage"
    => IF /\ SeqMax(Batch(hx)) - Mean(hx) <= Band(hx)
          /\ Mean(hx) - SeqMin(Batch(hx)) <= Band(hx)
       THEN last.ret = ToU32(Mean(hx))
       ELSE last.ret = ToU32(0)

\* C7 as claimed: the batch [1000, 1001, 999, 1000, 1002] passes the outlier
\* check and Tare stores TareOffset = 1000.
C7_ScenarioBatchAccepted ==
    (last.op = "Tare" /\ Batch(hx) = ScenarioBatchA)
    => (last.ret = TRUE /\ m_RawTareWeight = 1000)

\* C7 amended: the batch [1000, 1001, 999, 1000, 1002] is rejected (Tare
\* returns false, TareOffset unchanged); a batch of five readings of 1000
\* is accepted and Tare stores TareOffset = 1000; with TareOffset = 1000,
\* Calibrate(2000, 500.0) sets ScaleFactor = 0.5; and with TareOffset =
\* 1000, ScaleFactor = 0.5, DisplayOffset = 0 and the filter averaging to
\* 1500, ReadWeight returns 250.0.
C7_Scenario ==
    [][ /\ (last'.op = "Tare" /\ Batch(hx') = ScenarioBatchA)
           => (last'.ret = FALSE /\ m_RawTareWeight' = m_RawTareWeight)
        /\ (last'.op = "Tare" /\ Batch(hx') = Const(5, 1000))
           => (last'.ret = TRUE /\ m_RawTareWeight' = 1000)
        /\ (/\ last'.op = "Calibrate"
            /\ last'.args = <<U32(2000), DRat(500, 1)>>
            /\ m_RawTareWeight = 1000)
           => (/\ last'.ret = TRUE
               /\ m_IsCalibrated'
               /\ m_UnitsScaleFactor' = DRat(1, 2))
        /\ (/\ last'.op = "ReadWeight"
            /\ m_IsCalibrated
            /\ m_RawTareWeight = 1000
            /\ m_UnitsScaleFactor = DRat(1, 2)
            /\ m_Offset = DRat(0, 1)
            /\ m_MovingAverage'.m_Total
                 = 1500 * Min(m_MovingAverage'.m_NumValues,
                              m_MovingAverage'.m_Size))
           => last'.ret = DRat(250, 1) ]_vars

\* C7 witness: the end of the amended scenario.
C7_Witness ==
    /\ last.op = "ReadWeight"
    /\ last.ret = DRat(250, 1)
    /\ m_IsCalibrated
    /\ m_RawTareWeight = 1000
    /\ m_UnitsScaleFactor = DRat(1, 2)
    /\ m_Offset = DRat(0, 1)
    /\ m_MovingAverage.m_Total = 3000
    /\ m_MovingAverage.m_NumValues = 2

\* C8: when the batch acquired by Tare is rejected by the outlier check
\* (some reading not strictly inside mean +/- mean/800), Tare returns false
\* and TareOffset, ScaleFactor, CalibratedFlag, DisplayOffset, Units and
\* the filter window (sum, seen-count, contents) are unchanged.
C8_RejectedTare ==
    [][ (/\ last'.op = "Tare"
         /\ \/ SeqMax(Batch(hx')) >= Mean(hx') + Band(hx')
            \/ SeqMin(Batch(hx')) <= Mean(hx') - Band(hx'))
        => /\ last'.ret = FALSE
           /\ UNCHANGED <<m_RawTareWeight, m_UnitsScaleFactor, m_IsCalibrated,
                          m_Offset, m_Units, m_MovingAverage>> ]_vars

\* C8 witness: Tare has rejected [1000, 1100, 900, 1000, 1000] on a
\* calibrated load cell whose filter holds values.
C8_Witness ==
    /\ last.op = "Tare"
    /\ last.ret = FALSE
    /\ Batch(hx) = ScenarioBatchB
    /\ m_IsCalibrated
    /\ m_RawTareWeight = 1600
    /\ m_MovingAverage.m_NumValues = 2

C10_SuccessfulTare ==
    [][ (last'.op = "Tare" /\ last'.ret = TRUE)
        => /\ m_RawTareWeight' = Mean(hx')
           /\ m_MovingAverage'.m_Total = 0
           /\ m_MovingAverage'.m_NumValues = 0
           /\ m_MovingAverage'.m_Size = m_MovingAverage.m_Size
           /\ UNCHANGED <<m_UnitsScaleFactor, m_Offset, m_Units,
                          m_Gain>> ]_vars

\* C10 witness: a successful Tare has replaced an earlier TareOffset.
C10_Witness ==
    /\ last.op = "Tare"
    /\ last.ret = TRUE
    /\ m_RawTareWeight = 1600
    /\ m_UnitsScaleFactor # DRat(1, 1)
    /\ ~DIsZero(m_Offset)
    /\ m_MovingAverage.m_Size = 1

\* C4: tare strictly precedes calibration: in every state reachable by
\* Tare, Calibrate, SetGain, SetUnits, SetAverageInterval, ReadWeight, Save
\* and Restore, CalibratedFlag = true implies TareOffset # 0 (and the same
\* holds of every blob written by Save).
C4_CalibratedImpliesTared ==
    /\ m_IsCalibrated => m_RawTareWeight # 0
    /\ \A name \in NvsNames :
          (nvs[name] # NoBlob /\ nvs[name][1].m_IsCalibrated)
          => nvs[name][1].m_RawTareWeight # 0

\* C4 witness: a Restore has made an instance calibrated.
C4_Witness ==
    /\ last.op = "Restore"
    /\ last.ret = TRUE
    /\ m_IsCalibrated
    /\ m_RawTareWeight # 0

\* The raw reference used by the last Calibrate: the rawRef argument, or
\* the average acquired when the argument is 0.
RawReference(call, reads) ==
    IF U32IsZero(call.args[1]) THEN Mean(reads) ELSE call.args[1].v

\* C11 as claimed: every successful Calibrate with TareOffset t # 0 and raw
\* reference r sets ScaleFactor to cookedRef / (r - t), r - t being the
\* signed difference (also when r < t), resets the filter and sets
\* CalibratedFlag.
C11_SignedDifference ==
    [][ (last'.op = "Calibrate" /\ last'.ret = TRUE)
        => /\ m_UnitsScaleFactor' =
                 DDiv(last'.args[2],
                      DInt(RawReference(last', hx') - m_RawTareWeight))
           /\ m_MovingAverage' = MA_Reset(m_MovingAverage)
           /\ m_IsCalibrated' ]_vars

\* C12: a Calibrate with rawRef = 0 on a tared load cell whose acquired
\* batch is rejected returns false and leaves ScaleFactor, CalibratedFlag,
\* TareOffset, DisplayOffset, Units and the filter window unchanged.
C12_RejectedCalibrate ==
    [][ (/\ last'.op = "Calibrate"
         /\ U32IsZero(last'.args[1])
         /\ m_RawTareWeight # 0
         /\ ReadRawAverage(DEFAULT_TARE_COUNT, hx') = U32(0))
        => /\ last'.ret = FALSE
           /\ UNCHANGED <<m_UnitsScaleFactor, m_IsCalibrated,
                          m_RawTareWeight, m_Offset, m_Units,
                          m_MovingAverage>> ]_vars

\* C12 witness: a Calibrate with rawRef = 0 has failed on a calibrated load
\* cell with a value in its filter, its batch being rejected.
C12_Witness ==
    /\ last.op = "Calibrate"
    /\ U32IsZero(last.args[1])
    /\ last.ret = FALSE
    /\ Len(hx) = DEFAULT_TARE_COUNT + 1
    /\ hx[Len(hx)] = 2010
    /\ m_IsCalibrated
    /\ m_MovingAverage.m_NumValues > 0

\* C13: SetGain(g) returns true if and only if g is 64 or 128 and differs
\* from the current gain; when it returns false, Gain, CalibratedFlag,
\* TareOffset, ScaleFactor and the filter window are unchanged and no raw
\* sample is drawn.
C13_SetGainResult ==
    [][ last'.op = "SetGain"
        => /\ last'.ret = (/\ last'.args[1] \in {64, 128}
                           /\ last'.args[1] # m_Gain)
           /\ (last'.ret = FALSE
               => /\ hx' = << >>
                  /\ UNCHANGED <<m_Gain, m_IsCalibrated, m_RawTareWeight,
                                 m_UnitsScaleFactor, m_MovingAverage>>) ]_vars

\* C13 witness: SetGain has refused the illegal gain 32 on a calibrated load
\* cell with a value in its filter.
C13_Witness ==
    /\ last.op = "SetGain"
    /\ last.args[1] = 32
    /\ last.ret = FALSE
    /\ m_IsCalibrated
    /\ m_MovingAverage.m_NumValues > 0

\* C14: every SetGain that returns true sets Gain to the new value, clears
\* CalibratedFlag, draws exactly one raw sample, which is not added to the
\* filter, and leaves the filter reset (sum 0, seen-count 0); CalibratedFlag
\* only becomes true again by a successful Calibrate or Restore.
C14_GainChange ==
    [][ /\ (last'.op = "SetGain" /\ last'.ret = TRUE)
           => /\ m_Gain' = last'.args[1]
              /\ ~m_IsCalibrated'
              /\ Len(hx') = 1
              /\ m_MovingAverage'.m_Total = 0
              /\ m_MovingAverage'.m_NumValues = 0
        /\ (~m_IsCalibrated /\ m_IsCalibrated')
           => /\ last'.op \in {"Calibrate", "Restore"}
              /\ last'.ret = TRUE ]_vars

\* C14 witness: a gain change has cleared the flag of a load cell that had
\* been calibrated (its scale factor is the calibrated one).
C14_Witness ==
    /\ last.op = "SetGain"
    /\ last.ret = TRUE
    /\ m_Gain = 64
    /\ ~m_IsCalibrated
    /\ m_UnitsScaleFactor = DRat(1, 2)
    /\ hx = <<1500>>

\* The units for which GetBaseUnitsFactor has a factor.
ValidUnits == {eWuGrams, eWuKiloGrams, eWuOunces, eWuPounds}

\* C15: SetUnits with an invalid old or new unit returns false and leaves
\* Units, ScaleFactor, DisplayOffset and the conversion factor unchanged.
C15_InvalidUnits ==
    [][ (/\ last'.op = "SetUnits"
         /\ (m_Units \notin ValidUnits \/ last'.args[1] \notin ValidUnits))
        => /\ last'.ret = FALSE
           /\ UNCHANGED <<m_Units, m_UnitsScaleFactor, m_Offset,
                          m_ConversionFactor>> ]_vars

\* C15 witness: SetUnits has refused a bad unit on a calibrated load cell
\* in pounds with a display offset.
C15_Witness ==
    /\ last.op = "SetUnits"
    /\ last.args[1] = eWuBadVal
    /\ last.ret = FALSE
    /\ m_Units = eWuPounds
    /\ m_IsCalibrated
    /\ ~DIsZero(m_Offset)

\* Filtered raw values for which C16 compares the reported weights.
FilteredRaws == {0, 1000, 1500, 2000}

\* C16: a successful SetUnits from U_old to U_new multiplies ScaleFactor and
\* DisplayOffset by k = BaseFactor(U_old) / BaseFactor(U_new), so that for
\* every filtered raw value the weight reported after the change is k times
\* the weight reported before; TareOffset, CalibratedFlag and the filter
\* are unchanged.
C16_UnitsConversion ==
    [][ (last'.op = "SetUnits" /\ last'.ret = TRUE)
        => LET k == DDiv(GetBaseUnitsFactor(m_Units),
                         GetBaseUnitsFactor(last'.args[1]))
           IN  /\ m_Units' = last'.args[1]
               /\ m_UnitsScaleFactor' = DMul(m_UnitsScaleFactor, k)
               /\ m_Offset' = DMul(m_Offset, k)
               /\ \A raw \in FilteredRaws :
                     ScaledValue(raw, m_RawTareWeight', m_UnitsScaleFactor',
                                 m_Offset')
                     = DMul(ScaledValue(raw, m_RawTareWeight,
                                        m_UnitsScaleFactor, m_Offset), k)
               /\ UNCHANGED <<m_RawTareWeight, m_IsCalibrated,
                              m_MovingAverage>> ]_vars

\* C16 witness: SetUnits has converted a calibrated load cell with a display
\* offset from pounds to ounces.
C16_Witness ==
    /\ last.op = "SetUnits"
    /\ last.ret = TRUE
    /\ m_Units = eWuOunces
    /\ m_ConversionFactor = OUNCES_PER_POUND
    /\ m_IsCalibrated
    /\ ~DIsZero(m_Offset)
    /\ m_MovingAverage.m_NumValues > 0

\* C18: SetUnits(currentUnits) returns true and leaves ScaleFactor,
\* DisplayOffset and Units unchanged.
C18_SameUnits ==
    [][ (last'.op = "SetUnits" /\ last'.args[1] = m_Units)
        => /\ last'.ret = TRUE
           /\ UNCHANGED <<m_UnitsScaleFactor, m_Offset, m_Units>> ]_vars

\* C18 witness: SetUnits(grams) has been called on a calibrated load cell
\* with a display offset whose units have always been grams.
C18_Witness ==
    /\ last.op = "SetUnits"
    /\ last.args[1] = eWuGrams
    /\ last.ret = TRUE
    /\ m_Units = eWuGrams
    /\ m_ConversionFactor = DRat(1, 1)
    /\ m_IsCalibrated
    /\ ~DIsZero(m_Offset)

\* C19: in every state, whose units A are valid, and for every valid unit
\* B, SetUnits(B) followed by SetUnits(A) succeeds twice and restores
\* ScaleFactor, DisplayOffset and Units exactly.
C19_RoundTrip ==
    \A B \in ValidUnits :
        LET there == UnitsChanged(m_Offset, m_UnitsScaleFactor,
                                  m_ConversionFactor, m_Units, B)
            back  == UnitsChanged(there.m_Offset, there.m_UnitsScaleFactor,
                                  there.m_ConversionFactor, there.m_Units,
                                  m_Units)
        IN  /\ m_Units \in ValidUnits
            /\ there.status /\ there.m_Units = B
            /\ back.status /\ back.m_Units = m_Units
            /\ back.m_UnitsScaleFactor = m_UnitsScaleFactor
            /\ back.m_Offset = m_Offset

\* C19 witness: a calibrated load cell with a display offset has been
\* converted back to grams from pounds.
C19_Witness ==
    /\ last.op = "SetUnits"
    /\ last.ret = TRUE
    /\ m_Units = eWuGrams
    /\ m_ConversionFactor = GRAMS_PER_POUND
    /\ m_IsCalibrated
    /\ ~DIsZero(m_Offset)

\* The members as SetUnits(newUnits) leaves them when it finds them as in
\* before.
After(before, newUnits) ==
    LET changed == UnitsChanged(before.m_Offset, before.m_UnitsScaleFactor,
                                DRat(1, 1), before.m_Units, newUnits)
    IN  [m_Offset |-> changed.m_Offset,
         m_UnitsScaleFactor |-> changed.m_UnitsScaleFactor,
         m_Units |-> changed.m_Units]

\* C17: a handler that interrupts SetUnits at any point reads a triple
\* (DisplayOffset, ScaleFactor, Units) that is either entirely the triple
\* before the call or entirely the triple after it.
C17_NoHalfAppliedUnits ==
    [][ (seen' # seen /\ seen'.at # "idle")
        => LET read == [m_Offset |-> seen'.m_Offset,
                        m_UnitsScaleFactor |-> seen'.m_UnitsScaleFactor,
                        m_Units |-> seen'.m_Units]
           IN  \/ read = entered.before
               \/ read = After(entered.before, entered.newUnits) ]_vars

\* C17 witness: the handler has run between interrupts() and the return of
\* a SetUnits that converted a non-zero display offset, and has read the
\* triple after the call.
C17_Witness ==
    /\ seen # << >>
    /\ seen.at = "return"
    /\ seen.m_Units = entered.newUnits
    /\ ~DIsZero(seen.m_Offset)
    /\ seen.m_Offset # entered.before.m_Offset

\* The sum of the last n values of a sequence.
SumOfLast(s, n) == SeqSum(SubSeq(s, Len(s) - n + 1, Len(s)))

\* C20: after any sequence of Add, Reset and SetSize on the filter with
\* window size K, the running sum is the sum of the last min(n, K) values
\* added since the last reset, n being the number of Adds since that reset.
C20_RunningSum ==
    /\ m_MovingAverage.m_NumValues = Len(history)
    /\ m_MovingAverage.m_Total
          = SumOfLast(history, Min(Len(history), m_MovingAverage.m_Size))

\* C20 witness: a window of size 2 has evicted two different values.
C20_Witness ==
    /\ last.op = "Add"
    /\ m_MovingAverage.m_Size = 2
    /\ Len(history) = 4
    /\ history[1] # history[2]
    /\ history[3] # history[1]
    /\ history[4] # history[2]

\* C21: from any reachable filter state with window size K, once the same
\* value k has been added K times in a row, Average() returns exactly k.
C21_Convergence ==
    LET K == m_MovingAverage.m_Size
        n == Len(history)
    IN  (n >= K /\ \A i \in (n - K + 1)..n : history[i] = history[n])
            => MA_Average(m_MovingAverage) = history[n]

\* C21 witness: a window of size 3 that held a different value has
\* received the same value three times.
C21_Witness ==
    /\ last.op = "Add"
    /\ m_MovingAverage.m_Size = 3
    /\ Len(history) = 4
    /\ history[1] # history[2]
    /\ history[2] = history[3]
    /\ history[3] = history[4]
    /\ MA_Average(m_MovingAverage) = history[4]

\* C22: the window size of the filter is within [MIN_SIZE, MAX_SIZE] in
\* every reachable state: after construction and after any sequence of
\* SetSize (through SetAverageInterval, whose int32_t argument converts to
\* every size_t value), SetAverageInterval and Restore calls.
C22_WindowSizeInRange ==
    /\ m_MovingAverage.m_Size >= MIN_SIZE
    /\ m_MovingAverage.m_Size <= MAX_SIZE

\* C22 witness: the largest int32_t has been requested and the size is
\* MAX_SIZE.
C22_Witness ==
    /\ last.op = "SetAverageInterval"
    /\ last.args = <<2147483647>>
    /\ m_MovingAverage.m_Size = MAX_SIZE

\* n clamped to [MIN_SIZE, MAX_SIZE] as a signed integer.
Clamped(n) ==
    IF n < MIN_SIZE THEN MIN_SIZE ELSE IF n > MAX_SIZE THEN MAX_SIZE ELSE n

\* C23 as claimed: for every int32_t n, SetAverageInterval(n) sets the
\* window size to n clamped to [1, 100] (1 for n < 1, 100 for n > 100) and
\* returns true exactly when 1 <= n <= 100.
C23_ClampedInterval ==
    [][last'.op = "SetAverageInterval"
          => /\ m_MovingAverage'.m_Size = Clamped(last'.args[1])
             /\ last'.ret = (/\ last'.args[1] >= MIN_SIZE
                             /\ last'.args[1] <= MAX_SIZE)]_vars

\* The state of a newly constructed instance with the default gain.
Fresh ==
    /\ m_Gain = DEFAULT_GAIN
    /\ m_RawTareWeight = 0
    /\ m_IsCalibrated = FALSE
    /\ m_Offset = DRat(0, 1)
    /\ m_Units = eWuGrams
    /\ m_AverageInterval = DEFAULT_AVERAGE_INTERVAL
    /\ m_UnitsScaleFactor = DRat(1, 1)
    /\ m_ConversionFactor = DRat(1, 1)

\* C24 as claimed: a Restore into a newly constructed instance (default
\* gain, same instance name) reproduces gain, TareOffset, CalibratedFlag,
\* DisplayOffset, Units, average interval and ScaleFactor of the state that
\* Save stored, for every reachable state of the saved instance.
C24_SaveRestoreRoundTrip ==
    [][(last'.op = "Restore" /\ last'.ret = TRUE /\ Fresh)
          => LET saved == nvs[m_pName][1]
             IN  /\ m_Gain' = saved.m_Gain
                 /\ m_RawTareWeight' = saved.m_RawTareWeight
                 /\ m_IsCalibrated' = saved.m_IsCalibrated
                 /\ m_Offset' = saved.m_Offset
                 /\ m_Units' = saved.m_Units
                 /\ m_AverageInterval' = saved.m_AverageInterval
                 /\ m_MovingAverage'.m_Size
                       = DToI32(saved.m_AverageInterval)
                 /\ m_UnitsScaleFactor' = saved.m_UnitsScaleFactor]_vars

\* The members of a SaveRestoreCache, without the padding bytes.
Members(blob) == [blob EXCEPT !.padding = 0]

\* C25 as claimed: Save returns true and makes no write when the stored
\* blob already equals the current state, so that the second of two
\* consecutive Save calls writes nothing; it makes one write when no blob is
\* stored or when the stored blob differs.
C25_SaveSkipsUnchanged ==
    [][(last'.op = "Save" /\ m_pName # NULL)
          => LET same == /\ nvs[m_pName] # NoBlob
                         /\ Members(nvs[m_pName][1])
                               = Members(SaveRestoreCache(0))
             IN  /\ last'.ret = TRUE
                 /\ puts' = IF same THEN 0 ELSE 1
                 /\ (last.op = "Save" /\ last.ret = TRUE) => puts' = 0]_vars

\* C26: Restore returns false and leaves every field unchanged when no
\* blob is stored or no instance name has been set; a successful Reset
\* leaves no blob under the instance name, and only a successful Save
\* stores one, so that Restore fails from a successful Reset until the next
\* successful Save.
C26_RestoreWithoutBlob ==
    [][/\ (last'.op = "Restore" /\ (m_pName = NULL \/ nvs[m_pName] = NoBlob))
             => /\ last'.ret = FALSE
                /\ UNCHANGED <<cal, m_MovingAverage, m_pName, nvs>>
       /\ (last'.op = "Reset" /\ last'.ret = TRUE)
             => (m_pName' # NULL /\ nvs'[m_pName'] = NoBlob)
       /\ \A name \in NvsNames :
             (nvs[name] = NoBlob /\ nvs'[name] # NoBlob)
                => (last'.op = "Save" /\ last'.ret = TRUE
                                      /\ m_pName = name)]_vars

\* C26 witness: Restore has failed on a calibrated load cell whose name is
\* set and whose blob is absent.
C26_Witness ==
    /\ last.op = "Restore"
    /\ last.ret = FALSE
    /\ m_pName # NULL
    /\ nvs[m_pName] = NoBlob
    /\ m_IsCalibrated

\* C27: ReadWeight, SetUnits, SetAverageInterval, ResetAverage, SetOffset,
\* Save, a rejected SetGain and a failed Tare or Calibrate change neither
\* CalibratedFlag nor TareOffset; a CalibratedFlag that is true stays true
\* across them.
C27_CalibrationKept ==
    [][(\/ last'.op \in {"ReadWeight", "SetUnits", "SetAverageInterval",
                         "ResetAverage", "SetOffset", "Save"}
        \/ (last'.op \in {"SetGain", "Tare", "Calibrate"}
              /\ last'.ret = FALSE))
          => /\ m_IsCalibrated' = m_IsCalibrated
             /\ m_RawTareWeight' = m_RawTareWeight]_vars

\* C27 witness: a Calibrate has failed on a calibrated load cell whose
\* state is saved, in other units and with another window size than the
\* initial ones.
C27_Witness ==
    /\ last.op = "Calibrate"
    /\ last.ret = FALSE
    /\ m_IsCalibrated
    /\ m_Units = eWuKiloGrams
    /\ m_MovingAverage.m_Size = 2
    /\ m_pName # NULL
    /\ nvs[m_pName] # NoBlob

\* C28: ResetAverage sets the sum and the number of values of the filter to
\* 0 and changes neither the window size nor any calibration field; the
\* calibrated ReadWeight that follows it returns the weight of its single
\* new sample.
C28_ResetAverage ==
    [][/\ (last'.op = "ResetAverage")
             => /\ m_MovingAverage'
                      = [m_MovingAverage EXCEPT !.m_Total = 0,
                                                !.m_NumValues = 0]
                /\ UNCHANGED <<cal, m_pName, nvs>>
       /\ (last.op = "ResetAverage" /\ last'.op = "ReadWeight"
                                    /\ m_IsCalibrated)
             => last'.ret = ScaledValue(hx'[1], m_RawTareWeight,
                                        m_UnitsScaleFactor, m_Offset)]_vars

\* C28 witness: ResetAverage has emptied a filter of window size 10 that
\* held two different samples, on a calibrated load cell.
C28_Witness ==
    /\ last.op = "ResetAverage"
    /\ m_IsCalibrated
    /\ m_MovingAverage.m_Size = 10
    /\ DOMAIN m_MovingAverage.m_Values = {0, 1}
    /\ m_MovingAverage.m_Values[0] # m_MovingAverage.m_Values[1]
    /\ m_MovingAverage.m_NumValues = 0

\* C29: SetSize, called by SetAverageInterval, resets the filter (sum 0,
\* number of values 0) when the clamped new size differs from the current
\* size, and leaves the sum, the number of values and the window contents
\* unchanged when it equals the current size.
C29_SetSizeResets ==
    [][last'.op = "SetAverageInterval"
          => IF m_MovingAverage'.m_Size # m_MovingAverage.m_Size
             THEN /\ m_MovingAverage'.m_Total = 0
                  /\ m_MovingAverage'.m_NumValues = 0
             ELSE m_MovingAverage' = m_MovingAverage]_vars

\* C29 witness: an interval above MAX_SIZE has been requested with the
\* window size at MAX_SIZE, and the filter still holds its two samples.
C29_Witness ==
    /\ last.op = "SetAverageInterval"
    /\ last.args = <<101>>
    /\ last.ret = FALSE
    /\ m_MovingAverage.m_Size = MAX_SIZE
    /\ m_MovingAverage.m_NumValues = 2
    /\ m_MovingAverage.m_Total = 3000

\* C30: ReadRawAverage(count) reads count + 1 values; the sum, the minimum,
\* the maximum and the mean are those of the last count of them, the first
\* value read being discarded; none of the values is added to the filter.
C30_ThrowawayReading ==
    [][last'.op = "ReadRawAverage"
          => LET count == last'.args[1]
                 used == [i \in 1..count |-> hx'[i + 1]]
                 avg == CDiv(SeqSum(used), count)
                 accepted ==
                    /\ SeqMax(used) < avg + CDiv(avg, LIMIT_DIVISOR)
                    /\ SeqMin(used) > avg - CDiv(avg, LIMIT_DIVISOR)
             IN  /\ Len(hx') = count + 1
                 /\ last'.ret = IF accepted THEN ToU32(avg) ELSE ToU32(0)
                 /\ m_MovingAverage' = m_MovingAverage]_vars

\* C30 witness: three readings of 1600 have been accepted after a first
\* reading of -1600.
C30_Witness ==
    /\ last.op = "ReadRawAverage"
    /\ last.args = <<3>>
    /\ hx = <<-1600, 1600, 1600, 1600>>
    /\ last.ret = ToU32(1600)

\* C35: Calibrate never succeeds when the raw reference weight (the value
\* passed, or the batch mean when 0 is passed) equals the tare weight: a
\* Calibrate step whose denominator rawRef - m_RawTareWeight is zero
\* returns false and does not set the calibrated flag.
C35_NonZeroDenominator ==
    [][ (last'.op = "Calibrate"
         /\ RawReference(last', hx') = m_RawTareWeight)
        => /\ last'.ret = FALSE
           /\ m_IsCalibrated' = m_IsCalibrated ]_vars

\* C38: a ReadWeight call made while the load cell is not calibrated reads
\* no raw value and leaves the filter (total, number of values, stored
\* values, size) and every calibration field unchanged.
C38_UncalibratedReadFrame ==
    [][ (last'.op = "ReadWeight" /\ ~m_IsCalibrated)
        => /\ hx' = << >>
           /\ m_MovingAverage' = m_MovingAverage
           /\ cal' = cal ]_vars

\* An uncalibrated ReadWeight has returned with values left in the filter.
C38_Witness ==
    /\ last.op = "ReadWeight"
    /\ last.ret = UNCALIBRATED_READ_VALUE
    /\ ~m_IsCalibrated
    /\ hx = << >>
    /\ m_MovingAverage.m_NumValues > 0

\* C39: in every reachable state the value returned by
\* GetAverageInterval(), m_AverageInterval, is the size of the filter
\* window, MovingAverage::Size().
C39_IntervalIsWindowSize ==
    m_AverageInterval = DInt(MA_Size(m_MovingAverage))

\* A Restore has brought back a window size other than the constructor's.
C39_Witness ==
    /\ last.op = "Restore"
    /\ last.ret = TRUE
    /\ MA_Size(m_MovingAverage) \in {2, 100}
    /\ m_AverageInterval # DEFAULT_AVERAGE_INTERVAL

C34_AverageDivisorNonZero ==
    [][ (last'.op = "ReadWeight" /\ m_IsCalibrated)
        => /\ m_MovingAverage' = MA_Add(m_MovingAverage, hx'[1])
           /\ MA_Divisor(m_MovingAverage') # 0 ]_vars

\* The values of the window slots 0 .. m_Size - 1 are, counted with
\* multiplicity, the last m_Size values of history.
WindowIsLast(ma, added) ==
    \A v \in FilterValues :
        Cardinality({i \in 0..(ma.m_Size - 1) : Slot(ma.m_Values, i) = v})
        = Cardinality({j \in (Len(added) - ma.m_Size + 1)..Len(added) :
                          added[j] = v})

\* C37: eviction stays correct when m_NumValues wraps around: after any
\* number of Adds without a reset, m_Total is the sum of the last m_Size
\* values added and the window holds exactly these values, each Add
\* having overwritten the oldest one.
C37_EvictionAcrossWrap ==
    Len(history) >= m_MovingAverage.m_Size
    => /\ m_MovingAverage.m_Total
             = SumOfLast(history, m_MovingAverage.m_Size)
       /\ WindowIsLast(m_MovingAverage, history)

\* C31: the tare retry loops of the menu handlers call Tare at most 5
\* times, make no further call after the first successful one, and always
\* come to their end; after 5 rejected batches in a row they show the
\* failure and the tare weight is the one found on entry.
C31_RetryLoop ==
    /\ [](/\ retry.i <= 5
          /\ (retry.pc = "done" /\ ~retry.success)
             => /\ retry.i = 5
                /\ last = Call("DisplayResult", << >>, FALSE)
                /\ retry.status = "quit"
                /\ m_RawTareWeight = retry.before
          /\ (retry.pc = "done" /\ retry.success)
             => /\ retry.i >= 1
                /\ last = Call("DisplayResult", << >>, TRUE))
    /\ [][ (retry.pc = "loop" /\ retry.success)
           => /\ retry'.pc = "done"
              /\ retry'.i = retry.i
              /\ m_RawTareWeight' = m_RawTareWeight ]_vars
    /\ (retry.pc = "loop") ~> (retry.pc = "done")

\* A loop entered with the tare weight 1000 has ended after five rejected
\* batches.
C31_Witness ==
    /\ retry.pc = "done"
    /\ ~retry.success
    /\ retry.i = MAX_TARE_RETRIES
    /\ retry.before = 1000
    /\ m_RawTareWeight = 1000

\* The handlers of the web requests, as recorded in last.
WebHandlers ==
    {"HandleLockOptions", "HandleUnlockOptions", "HandleMainPageData",
     "SendDisplayFormData", "SaveDisplayFormData"}

\* The step is a call: time and the connection of the client stay as they
\* are.
IsCall == millis' = millis /\ web'.connected = web.connected

\* C32: while the options lock is owned by the local user, no handler of
\* a web request releases it or takes it: after the handler the owner is
\* still LOCAL_OWNER.
C32_LocalLockKept ==
    [][ (gWebLock.m_Owner = LOCAL_OWNER
         /\ IsCall
         /\ last'.op \in WebHandlers)
        => gWebLock'.m_Owner = LOCAL_OWNER ]_vars

\* C33: a lock owned by the web client is released by the first
\* HandleWebTimeout call made more than 10 seconds after the client's
\* last request, HandleWebTimeout leaves a lock owned by the local user
\* alone, and a lock owned by a web client that has gone away is
\* eventually released.
C33_WebLockTimesOut ==
    /\ [][ (IsCall /\ web' = web /\ last'.op = "HandleWebTimeout")
           => /\ (gWebLock.m_Owner = WEB_OWNER
                  /\ millis - web.heard > WEB_WD_TIMEOUT_MS)
                 => gWebLock'.m_Owner = UNOWNED
              /\ gWebLock.m_Owner = LOCAL_OWNER
                 => gWebLock'.m_Owner = LOCAL_OWNER ]_vars
    /\ (gWebLock.m_Owner = WEB_OWNER /\ ~web.connected)
          ~> (gWebLock.m_Owner # WEB_OWNER \/ web.connected)

\* HandleWebTimeout has released the lock of a web client that went away
\* more than 10 seconds before.
C33_Witness ==
    /\ last.op = "HandleWebTimeout"
    /\ gWebLock.m_Owner = UNOWNED
    /\ ~web.connected
    /\ millis - web.heard > WEB_WD_TIMEOUT_MS

====
